---- MODULE Spec2Model ----
(***************************************************************************)
(* The background service worker of the recorder                           *)
(* (src/entrypoints/background.ts): the session map, the request/response  *)
(* correlation table, the per-channel telemetry buffers and the            *)
(* single-flight flush to batch storage (src/lib/storage.ts).              *)
(*                                                                         *)
(* The service worker is single threaded: a handler runs without           *)
(* interruption up to its next await.  Every action below is one such run: *)
(* the arrival of a message or CDP event up to the first suspension, or    *)
(* the resumption of a suspended handler when the awaited operation        *)
(* returns, together with the promise continuations it releases.           *)
(***************************************************************************)
EXTENDS Integers, Sequences, FiniteSets, TLC

(***************************************************************************)
(* Bounds of the model.                                                    *)
(***************************************************************************)
\* Telemetry events accepted into buffers over a run, all sessions together.
MaxEvents == 2
\* Screenshots counted for one session over a run.
MaxScreenshots == 1
\* Media chunks the recorder emits on its timeslice before it is stopped.
MaxChunks == 3
\* The size threshold of a channel buffer.  background.ts:49 sets 50; the
\* model scales it down so that the size-triggered flush happens within
\* MaxEvents appends.  No definition below depends on its value otherwise.
BUFFER_FLUSH_SIZE == 2
\* Events accepted over a run in which appends outrun the flush: a batch in
\* flight and a full buffer behind it.
MaxBacklog == BUFFER_FLUSH_SIZE + 1

\* 2 minute TTL of a pending request, in ms.
PENDING_TTL_MS == 120000

(***************************************************************************)
(* Input domains.                                                          *)
(***************************************************************************)
Tabs == {1, 2}
\* Readings of Date.now() (ms).  The clock only moves forward, and every
\* START_RECORDING is handled at a reading of its own, so the instants also
\* bound the number of sessions.
Instants == {1000, 122000}
RequestIds == {"r1", "r2"}
\* Header names are sequences of characters, so that String.toLowerCase is
\* a conversion the model computes.  A header map (Record<string, string>)
\* is a function from names to values.
Authorization == <<"A", "u", "t", "h", "o", "r", "i", "z", "a", "t", "i", "o", "n">>
Accept == <<"A", "c", "c", "e", "p", "t">>
COOKIE == <<"C", "O", "O", "K", "I", "E">>
XApiKey == <<"X", "-", "A", "p", "i", "-", "K", "e", "y">>
SetCookie == <<"S", "e", "t", "-", "C", "o", "o", "k", "i", "e">>
ContentType == <<"C", "o", "n", "t", "e", "n", "t", "-", "T", "y", "p", "e">>
xAuthToken == <<"x", "-", "a", "u", "t", "h", "-", "t", "o", "k", "e", "n">>
ProxyAuthorization ==
  <<"P", "r", "o", "x", "y", "-", "A", "U", "T", "H", "O", "R", "I", "Z", "A", "T", "I", "O", "N">>
NoHeaders == [name \in {} |-> ""]
\* params.request.headers of the payloads below.
RequestHeaders == (Authorization :> "Bearer xyz") @@ (Accept :> "application/json")
OtherRequestHeaders == (COOKIE :> "sid=abc") @@ (XApiKey :> "key-1")
\* params.response.headers.
ResponseHeaders == (SetCookie :> "sid=abc") @@ (ContentType :> "application/json")
OtherResponseHeaders == (xAuthToken :> "tok-1") @@ (ProxyAuthorization :> "Basic abc")
\* Network.requestWillBeSent payloads.  wallTime is in units of 0.1 ms
\* (10500 is 1.0500 s): CDP reports seconds with a fraction, so the
\* conversion to ms has to round.
Requests ==
  {[requestId |-> "r1", url |-> "https://a.test/api", wallTime |-> 10500,
    headers |-> RequestHeaders]}
\* Further payloads: a wall time that is not a whole ms with other headers,
\* and the empty url, the falsy case of the required-field validation.
OtherRequests ==
  {[requestId |-> "r1", url |-> "https://a.test/api", wallTime |-> 10495,
    headers |-> OtherRequestHeaders],
   [requestId |-> "r2", url |-> "", wallTime |-> 10500, headers |-> NoHeaders]}
\* A request issued two minutes later.
LaterRequests ==
  {[requestId |-> "r2", url |-> "https://a.test/img", wallTime |-> 1220495,
    headers |-> NoHeaders]}
\* A request whose CDP wall time (0.9000 s) lies before the T0 of the session.
EarlyRequests ==
  {[requestId |-> "r1", url |-> "https://a.test/api", wallTime |-> 9000,
    headers |-> NoHeaders]}
\* Network.responseReceived payloads: resource type, status and headers.
Responses == {[type |-> "XHR", status |-> 200, headers |-> ResponseHeaders]}
OtherResponses ==
  {[type |-> "Image", status |-> 200, headers |-> NoHeaders],
   [type |-> "Image", status |-> 404, headers |-> OtherResponseHeaders]}
\* payload.timestamp of a DOM event (the content script's Date.now()).
DomTimestamps == {900}
\* payload.timestamp of a SCREENSHOT_CAPTURED (the offscreen document's
\* Date.now()): one before the first T0 and one after every instant.
ScreenshotTimestamps == {900, 200000}
\* payload.screenshotIndex.
ScreenshotIndices == {0}
\* event.data.size of a dataavailable event: an empty blob or one with data.
ChunkSizes == {0, 1}
\* params.type of a Runtime.consoleAPICalled.
ConsoleTypes == {"warning"}
OtherConsoleTypes == {"trace", "error"}
Stages == {"init", "recording", "stopping"}
\* payload.error of a MEDIA_ERROR.
MediaErrors == {"NotAllowedError"}
\* The ends a notification goes to: the popup (chrome.runtime.sendMessage)
\* and the content script of the tab (chrome.tabs.sendMessage).
Receivers == {"popup", "page"}
Channels == {"network", "console", "dom"}

(***************************************************************************)
(* Maps (JavaScript Map objects) as functions with a growing domain.       *)
(***************************************************************************)
MapSet(m, k, v) == [x \in (DOMAIN m) \cup {k} |-> IF x = k THEN v ELSE m[x]]
MapDelete(m, k) == [x \in (DOMAIN m) \ {k} |-> m[x]]
MapHas(m, k) == k \in DOMAIN m
EmptyMap == [x \in {} |-> 0]

\* The sum of f[x] over x in S.
RECURSIVE Sum(_, _)
Sum(f, S) ==
  IF S = {} THEN 0
  ELSE LET x == CHOOSE y \in S : TRUE IN f[x] + Sum(f, S \ {x})

\* The elements of a finite set of integers in increasing order.
RECURSIVE SortedSeq(_)
SortedSeq(S) ==
  IF S = {} THEN <<>>
  ELSE LET m == CHOOSE x \in S : \A y \in S : x <= y
       IN <<m>> \o SortedSeq(S \ {m})

RECURSIVE Flatten(_)
Flatten(ss) == IF ss = <<>> THEN <<>> ELSE Head(ss) \o Flatten(Tail(ss))

Range(s) == {s[i] : i \in DOMAIN s}

VARIABLES
  now,                     \* Date.now()
  sessions,                \* sessions: Map<sessionId, SessionState>
  networkEventBuffers,     \* Map<sessionId, NetworkEvent[]>
  consoleEventBuffers,     \* Map<sessionId, ConsoleEvent[]>
  domEventBuffers,         \* Map<sessionId, DOMEvent[]>
  pendingNetworkRequests,  \* Map<sessionId, Map<requestId, Partial<NetworkEvent>>>
  flushTimers,             \* Map<sessionId, interval handle>: its key set
  networkBatchIndices,     \* Map<sessionId, number>
  consoleBatchIndices,
  domBatchIndices,
  orphanTimers,            \* intervals still running whose handle flushTimers lost
  flushInProgress,         \* Map<sessionId, Promise>: its key set
  tabIdToSessionId,        \* Map<tabId, sessionId>
  idb,                     \* the idb-keyval store: batch key -> events
  flushRuns,               \* executions of doFlushTelemetryBuffers suspended in a write
  startRuns,               \* handleStartRecording runs suspended in cdpClient.attach
  stoppedRuns,             \* handleMediaStopped runs, by the await they are suspended in
  errorRuns,               \* handleMediaError runs, likewise
  domEventRuns,            \* per session, the handleDOMEventCaptured runs awaiting its flush
  capture,                 \* per session, where the offscreen document is in its protocol
  accepted,                \* history: per session and channel, the events appended
  writeLog,                \* history: per session and channel, the batch indices written
  failedWrites,            \* history: sessions that had a persistence write fail
  evicted,                 \* history: <<sessionId, requestId>> of entries the TTL sweep removed
  receivers,               \* who listens for messages: the popup, the content script
  offscreen,               \* the recorder and chunk bookkeeping of the offscreen document
  sent                     \* the messages and replies the step just taken sent, in order

vars == <<now, sessions, networkEventBuffers, consoleEventBuffers, domEventBuffers,
          pendingNetworkRequests, flushTimers, orphanTimers, networkBatchIndices,
          consoleBatchIndices, domBatchIndices, flushInProgress, tabIdToSessionId,
          idb, flushRuns, startRuns, stoppedRuns, errorRuns, domEventRuns, capture,
          accepted,
          writeLog, failedWrites, evicted, receivers, offscreen, sent>>

(***************************************************************************)
(* The mutable state of the service worker as one record, so that a        *)
(* handler is a composition of the functions it calls.  A step begins with *)
(* nothing sent.                                                           *)
(***************************************************************************)
Cur ==
  [sessions |-> sessions,
   networkEventBuffers |-> networkEventBuffers,
   consoleEventBuffers |-> consoleEventBuffers,
   domEventBuffers |-> domEventBuffers,
   pendingNetworkRequests |-> pendingNetworkRequests,
   flushTimers |-> flushTimers,
   orphanTimers |-> orphanTimers,
   networkBatchIndices |-> networkBatchIndices,
   consoleBatchIndices |-> consoleBatchIndices,
   domBatchIndices |-> domBatchIndices,
   flushInProgress |-> flushInProgress,
   tabIdToSessionId |-> tabIdToSessionId,
   idb |-> idb,
   flushRuns |-> flushRuns,
   startRuns |-> startRuns,
   stoppedRuns |-> stoppedRuns,
   errorRuns |-> errorRuns,
   domEventRuns |-> domEventRuns,
   accepted |-> accepted,
   writeLog |-> writeLog,
   failedWrites |-> failedWrites,
   evicted |-> evicted,
   receivers |-> receivers,
   offscreen |-> offscreen,
   sent |-> <<>>]

Commit(st) ==
  /\ sessions' = st.sessions
  /\ networkEventBuffers' = st.networkEventBuffers
  /\ consoleEventBuffers' = st.consoleEventBuffers
  /\ domEventBuffers' = st.domEventBuffers
  /\ pendingNetworkRequests' = st.pendingNetworkRequests
  /\ flushTimers' = st.flushTimers
  /\ orphanTimers' = st.orphanTimers
  /\ networkBatchIndices' = st.networkBatchIndices
  /\ consoleBatchIndices' = st.consoleBatchIndices
  /\ domBatchIndices' = st.domBatchIndices
  /\ flushInProgress' = st.flushInProgress
  /\ tabIdToSessionId' = st.tabIdToSessionId
  /\ idb' = st.idb
  /\ flushRuns' = st.flushRuns
  /\ startRuns' = st.startRuns
  /\ stoppedRuns' = st.stoppedRuns
  /\ errorRuns' = st.errorRuns
  /\ domEventRuns' = st.domEventRuns
  /\ accepted' = st.accepted
  /\ writeLog' = st.writeLog
  /\ failedWrites' = st.failedWrites
  /\ evicted' = st.evicted
  /\ receivers' = st.receivers
  /\ offscreen' = st.offscreen
  /\ sent' = st.sent

Init ==
  /\ now = 1000
  /\ sessions = EmptyMap
  /\ networkEventBuffers = EmptyMap
  /\ consoleEventBuffers = EmptyMap
  /\ domEventBuffers = EmptyMap
  /\ pendingNetworkRequests = EmptyMap
  /\ flushTimers = {}
  /\ orphanTimers = {}
  /\ networkBatchIndices = EmptyMap
  /\ consoleBatchIndices = EmptyMap
  /\ domBatchIndices = EmptyMap
  /\ flushInProgress = {}
  /\ tabIdToSessionId = EmptyMap
  /\ idb = EmptyMap
  /\ flushRuns = {}
  /\ startRuns = {}
  /\ stoppedRuns = EmptyMap
  /\ errorRuns = EmptyMap
  /\ domEventRuns = EmptyMap
  /\ capture = EmptyMap
  /\ accepted = EmptyMap
  /\ writeLog = EmptyMap
  /\ failedWrites = {}
  /\ evicted = {}
  /\ receivers = Receivers
  /\ offscreen = [recorder |-> "none", sessionId |-> <<>>, chunkIndex |-> 0,
                  storing |-> {}, chunks |-> {}, finalChunkCount |-> <<>>,
                  mediaStopped |-> <<>>]
  /\ sent = <<>>

(***************************************************************************)
(* Timestamp conversion.                                                   *)
(***************************************************************************)
\* Math.round of a reading given in units of 0.1 ms, in ms: halves round up.
RoundToMs(w) == (w + 5) \div 10

\* lib/sync.ts is not part of the sources; background.ts:16 imports these two.
\* cdpWallTimeToVideoOffset(wallTime, T0) = round(wallTime * 1000) - T0.
cdpWallTimeToVideoOffset(wallTime, sessionStartTime) ==
  RoundToMs(wallTime) - sessionStartTime

\* An offset that never goes below zero.
ClampedVideoTimestamp(sessionStartTime, timestamp) ==
  IF timestamp < sessionStartTime THEN 0 ELSE timestamp - sessionStartTime

\* calculateVideoTimestamp(T0, eventWallClockMs) = eventWallClockMs - T0.
calculateVideoTimestamp(sessionStartTime, timestamp) == timestamp - sessionStartTime

(***************************************************************************)
(* Batch storage (src/lib/storage.ts).                                     *)
(***************************************************************************)
\* `${sessionId}:network:batch:${batchIndex}` and its console and dom
\* siblings: the key names the session, the channel and the index.
BatchKey(sessionId, channel, batchIndex) == <<sessionId, channel, batchIndex>>

\* storeNetworkEventBatch / storeConsoleEventBatch / storeDOMEventBatch:
\* set(key, events) replaces whatever the key held.
storeEventBatch(store, sessionId, channel, batchIndex, events) ==
  MapSet(store, BatchKey(sessionId, channel, batchIndex), events)

\* The batch indices stored for a session and channel.
StoredIndices(store, sessionId, channel) ==
  {k[3] : k \in {x \in DOMAIN store : x[1] = sessionId /\ x[2] = channel}}

\* getNetworkEvents / getConsoleEvents / getDOMEvents: the batches of the
\* session and channel, sorted by index, concatenated.
getEvents(store, sessionId, channel) ==
  LET idx == SortedSeq(StoredIndices(store, sessionId, channel))
  IN Flatten([i \in DOMAIN idx |-> store[BatchKey(sessionId, channel, idx[i])]])

(***************************************************************************)
(* Per-channel access to the state record.                                 *)
(***************************************************************************)
ChannelOrder == <<"network", "console", "dom">>

Buffers(st, ch) ==
  CASE ch = "network" -> st.networkEventBuffers
    [] ch = "console" -> st.consoleEventBuffers
    [] ch = "dom" -> st.domEventBuffers

WithBuffers(st, ch, m) ==
  CASE ch = "network" -> [st EXCEPT !.networkEventBuffers = m]
    [] ch = "console" -> [st EXCEPT !.consoleEventBuffers = m]
    [] ch = "dom" -> [st EXCEPT !.domEventBuffers = m]

BatchIndices(st, ch) ==
  CASE ch = "network" -> st.networkBatchIndices
    [] ch = "console" -> st.consoleBatchIndices
    [] ch = "dom" -> st.domBatchIndices

WithBatchIndices(st, ch, m) ==
  CASE ch = "network" -> [st EXCEPT !.networkBatchIndices = m]
    [] ch = "console" -> [st EXCEPT !.consoleBatchIndices = m]
    [] ch = "dom" -> [st EXCEPT !.domBatchIndices = m]

\* session.sessionId is `${tabId}-${sessionStartTime}`.
SessionId(tabId, sessionStartTime) == <<tabId, sessionStartTime>>

(***************************************************************************)
(* Messages out.  chrome.runtime.sendMessage and chrome.tabs.sendMessage   *)
(* reject when nobody listens at the other end.                            *)
(***************************************************************************)
\* The send is attempted: `sent` has the message and what became of it.
Send(st, to, message, delivered) ==
  [st EXCEPT !.sent = Append(@, [to |-> to, delivered |-> delivered, message |-> message])]

\* A message of the type was sent to the receiver and reached it.
Reached(st, to, type) ==
  \E i \in DOMAIN st.sent :
    st.sent[i].to = to /\ st.sent[i].delivered /\ st.sent[i].message.type = type

\* The popup or the content script listens.
Listening(st, to) == to \in st.receivers

\* A catch block that throws the error on.
SendErrorRethrown(to) == FALSE

\* The catch blocks around the sends to the content script and the popup
\* (277-279, 440-442, 460-462, 581-583, 663-665, 750-752): they log the
\* error and the handler goes on.
SendErrorCaught(to) == TRUE

\* The statement after `try { await send } catch { log }` is reached.
GoesOn(st, to) == Listening(st, to) \/ SendErrorCaught(to)

\* What the sender of a message gets back: the value the handler returns,
\* or { success: false, error } from the catch of the listener (106-109) or
\* of the handler when the handler threw.
Respond(st, request, success) ==
  [st EXCEPT !.sent = Append(@, [to |-> "sender", delivered |-> TRUE,
                                 message |-> [type |-> "response", request |-> request,
                                              success |-> success]])]

\* The same response to n suspended handlers.
RECURSIVE RespondTimes(_, _, _, _)
RespondTimes(st, request, success, n) ==
  IF n = 0 THEN st ELSE RespondTimes(Respond(st, request, success), request, success, n - 1)

\* Lines 446-459 and 647-662: the SESSION_STATUS_UPDATE payload.  duration
\* is in the completed update alone; <<>> is undefined.
StatusUpdate(session, status) ==
  [type |-> "SESSION_STATUS_UPDATE",
   tabId |-> session.tabId,
   status |-> status,
   sessionId |-> session.sessionId,
   duration |-> IF status = "completed" /\ session.sessionStopTime # <<>>
                THEN <<session.sessionStopTime[1] - session.sessionStartTime>>
                ELSE <<>>,
   chunkCount |-> session.recordingChunkCount,
   screenshotCount |-> session.screenshotCount,
   networkEventCount |-> session.networkEventCount,
   consoleEventCount |-> session.consoleEventCount]

\* Lines 741-749: the RECORDING_ERROR payload.  error is the handler's
\* payload.error; recoverable is read from the session when the message is
\* made.
RecordingError(session, error) ==
  [type |-> "RECORDING_ERROR",
   tabId |-> session.tabId,
   error |-> error,
   recoverable |-> session.errorRecoverable[1]]

(***************************************************************************)
(* Teardown of a session's telemetry state.                                *)
(***************************************************************************)
\* The eight deletes of handleMediaStopped (600-607) and handleMediaError
\* (718-725).  tabIdToSessionId is keyed by the tab, whichever session it
\* maps to.
DeleteTelemetryState(st, sid) ==
  [st EXCEPT !.networkEventBuffers = MapDelete(@, sid),
             !.consoleEventBuffers = MapDelete(@, sid),
             !.domEventBuffers = MapDelete(@, sid),
             !.pendingNetworkRequests = MapDelete(@, sid),
             !.networkBatchIndices = MapDelete(@, sid),
             !.consoleBatchIndices = MapDelete(@, sid),
             !.domBatchIndices = MapDelete(@, sid),
             !.tabIdToSessionId = MapDelete(@, st.sessions[sid].tabId)]

\* handleMediaStopped from the cleanup on: the deletes, then status
\* 'completed', then the status update to the popup and the return.  The
\* other awaits of the tail (session metadata, lastSession, closeDocument)
\* are each wrapped in try/catch and change none of the state above.
CompleteSession(st, sid) ==
  LET st1 == DeleteTelemetryState(st, sid)
      st2 == [st1 EXCEPT !.sessions[sid].status = "completed",
                         !.sessions[sid].offscreenDocumentActive = FALSE,
                         !.stoppedRuns = MapDelete(@, sid)]
      st3 == Send(st2, "popup", StatusUpdate(st2.sessions[sid], "completed"),
                  Listening(st2, "popup"))
  IN Respond(st3, "MEDIA_STOPPED", GoesOn(st3, "popup"))

\* handleMediaStopped after `await flushTelemetryBuffers` returned: detach
\* the debugger if the session holds it, else go on to the cleanup.
AfterFinalFlush(st, sid) ==
  IF st.sessions[sid].debuggerAttached
  THEN [st EXCEPT !.stoppedRuns = MapSet(@, sid, "detach")]
  ELSE CompleteSession(st, sid)

\* Lines 739-755: the error notification to the popup, and the return.
ErrorBroadcast(st, sid, error) ==
  LET st1 == Send(st, "popup", RecordingError(st.sessions[sid], error),
                  Listening(st, "popup"))
  IN Respond(st1, "MEDIA_ERROR", GoesOn(st1, "popup"))

\* handleMediaError from the cleanup after its try block on.
ErrorCleanup(st, sid) ==
  ErrorBroadcast([DeleteTelemetryState(st, sid) EXCEPT !.errorRuns = MapDelete(@, sid)],
                 sid, st.errorRuns[sid].error)

(***************************************************************************)
(* flushTelemetryBuffers / doFlushTelemetryBuffers.                        *)
(***************************************************************************)
\* The handlers suspended in `await flushTelemetryBuffers(sid)` resume when
\* the flush promise settles.  handleMediaStopped has no try around it: a
\* rejection ends the handler where it is, and the listener's catch
\* (106-109) answers for it.  handleMediaError catches it, skips the detach
\* in the same try block, and cleans up.  The handleDOMEventCaptured runs
\* that await the flush (1145) were suspended before either, while the
\* session was recording: they return first, success if the flush resolved
\* and failure, from their catch (1150-1153), if it rejected.
ResumeAwaiters(st, sid, ok) ==
  LET st0 == IF MapHas(st.domEventRuns, sid)
             THEN RespondTimes([st EXCEPT !.domEventRuns = MapDelete(@, sid)],
                               "DOM_EVENT_CAPTURED", ok, st.domEventRuns[sid])
             ELSE st
      st1 == IF MapHas(st0.stoppedRuns, sid) /\ st0.stoppedRuns[sid] = "flush"
             THEN IF ok THEN AfterFinalFlush(st0, sid)
                  ELSE Respond([st0 EXCEPT !.stoppedRuns = MapDelete(@, sid)],
                               "MEDIA_STOPPED", FALSE)
             ELSE st0
  IN IF MapHas(st1.errorRuns, sid) /\ st1.errorRuns[sid].pc = "flush"
     THEN IF ok THEN [st1 EXCEPT !.errorRuns[sid].pc = "detach"]
          ELSE ErrorCleanup(st1, sid)
     ELSE st1

\* The promise of doFlushTelemetryBuffers settles: the finally of
\* flushTelemetryBuffers (1304-1306) deletes the guard entry, and the
\* awaiting handlers resume.
SettleFlush(st, sid, ok) ==
  ResumeAwaiters([st EXCEPT !.flushInProgress = @ \ {sid}], sid, ok)

\* A flush cycle that evicts nothing.
NoSweep(st, sid) == st

\* Lines 1374-1385: drop every pending request older than the TTL.
\* wallTime * 1000 is the request's wall clock in ms (here wallTime counts
\* 0.1 ms, so both sides are scaled by 10).
SweepPending(st, sid) ==
  IF MapHas(st.pendingNetworkRequests, sid)
  THEN LET pendingMap == st.pendingNetworkRequests[sid]
           keep == {r \in DOMAIN pendingMap :
                      ~(10 * now - pendingMap[r].wallTime > 10 * PENDING_TTL_MS)}
       IN [st EXCEPT !.pendingNetworkRequests[sid] = [r \in keep |-> pendingMap[r]],
                     !.evicted = @ \cup {<<sid, r>> : r \in DOMAIN pendingMap \ keep}]
  ELSE st

\* A flush that always writes to index 0.
FirstBatchIndex(st, ch, sid) == 0

\* `networkBatchIndices.get(sessionId) || 0`.
BatchIndexOrZero(st, ch, sid) ==
  IF MapHas(BatchIndices(st, ch), sid) THEN BatchIndices(st, ch)[sid] ELSE 0

RunEvents(run, ch) ==
  CASE ch = "network" -> run.network
    [] ch = "console" -> run.console
    [] ch = "dom" -> run.dom

\* doFlushTelemetryBuffers from its i-th channel block on: a channel with
\* events to flush reads its batch index and suspends in the store call; after
\* the third block the TTL sweep runs and the promise resolves.
RECURSIVE ContinueFlush(_, _, _)
ContinueFlush(st, run, i) ==
  IF i > Len(ChannelOrder)
  THEN SettleFlush(SweepPending(st, run.sid), run.sid, TRUE)
  ELSE LET ch == ChannelOrder[i]
       IN IF Len(RunEvents(run, ch)) > 0
          THEN [st EXCEPT !.flushRuns = @ \cup
                  {[run EXCEPT !.pc = i,
                               !.batchIndex = BatchIndexOrZero(st, ch, run.sid)]}]
          ELSE ContinueFlush(st, run, i + 1)

\* Lines 1314-1327: splice(0, length) takes the whole buffer and leaves the
\* same array empty; a session without buffers yields [].
EventsToFlush(st, ch, sid) ==
  IF MapHas(Buffers(st, ch), sid) THEN Buffers(st, ch)[sid] ELSE <<>>

\* A flush that reads the buffers without emptying them.
KeepBuffers(st, sid) == st

SpliceBuffers(st, sid) ==
  LET emptied(m) == IF MapHas(m, sid) THEN MapSet(m, sid, <<>>) ELSE m
  IN [st EXCEPT !.networkEventBuffers = emptied(@),
                !.consoleEventBuffers = emptied(@),
                !.domEventBuffers = emptied(@)]

\* doFlushTelemetryBuffers up to its first await.
doFlushTelemetryBuffers(st, sid) ==
  LET run == [sid |-> sid,
              network |-> EventsToFlush(st, "network", sid),
              console |-> EventsToFlush(st, "console", sid),
              dom |-> EventsToFlush(st, "dom", sid),
              pc |-> 1,
              batchIndex |-> 0]
  IN ContinueFlush(SpliceBuffers(st, sid), run, 1)

\* A flush without the guard.
NoFlushGuard(st, sid) == FALSE

\* A guard that lets one flush run at a time, whatever its session.
OneFlushAtATime(st, sid) == st.flushInProgress # {}

\* Line 1295: the guard against concurrent flushes.
FlushGuard(st, sid) == sid \in st.flushInProgress

\* flushTelemetryBuffers up to its await: with a flush in flight the caller
\* gets the in-flight promise; otherwise doFlushTelemetryBuffers runs to its
\* first await and its promise is registered.  A flush with nothing to write
\* has settled (and unregistered itself) before any other task runs.
flushTelemetryBuffers(st, sid) ==
  IF FlushGuard(st, sid)
  THEN st
  ELSE LET st1 == doFlushTelemetryBuffers(st, sid)
       IN IF \E run \in st1.flushRuns : run.sid = sid
          THEN [st1 EXCEPT !.flushInProgress = @ \cup {sid}]
          ELSE st1

\* The store call a flush is suspended in returns.  On success the batch is
\* in the store, the channel's index becomes the index read before the call
\* plus one, and the flush goes on with the next channel.  On failure the
\* catch (1386-1389) rethrows: the promise rejects.
WriteReturned(st, run, ok) ==
  LET ch == ChannelOrder[run.pc]
      st0 == [st EXCEPT !.flushRuns = @ \ {run}]
  IN IF ok
     THEN LET st1 == [st0 EXCEPT
                        !.idb = storeEventBatch(@, run.sid, ch, run.batchIndex,
                                                RunEvents(run, ch)),
                        !.writeLog[run.sid][ch] = Append(@, run.batchIndex)]
              st2 == WithBatchIndices(st1, ch,
                        MapSet(BatchIndices(st1, ch), run.sid, run.batchIndex + 1))
          IN ContinueFlush(st2, run, run.pc + 1)
     ELSE SettleFlush([st0 EXCEPT !.failedWrites = @ \cup {run.sid}], run.sid, FALSE)

(***************************************************************************)
(* Session lifecycle handlers.                                             *)
(***************************************************************************)
\* The session state of handleStartRecording (186-200).  Optional fields
\* are sequences: <<>> is undefined.
NewSession(tabId, sessionStartTime) ==
  [sessionId |-> SessionId(tabId, sessionStartTime),
   tabId |-> tabId,
   status |-> "idle",
   sessionStartTime |-> sessionStartTime,
   sessionStopTime |-> <<>>,
   recordingChunkCount |-> 0,
   screenshotCount |-> 0,
   networkEventCount |-> 0,
   consoleEventCount |-> 0,
   domEventCount |-> 0,
   debuggerAttached |-> FALSE,
   offscreenDocumentActive |-> TRUE,
   lastError |-> <<>>,
   errorRecoverable |-> <<>>]

\* handleStartRecording up to `await cdpClient.attach`: T0 is read, the
\* stream id and the offscreen document are obtained, the session is
\* registered and indexed by its tab.  The two awaits before the
\* registration (176, 183) change no state; if one of them throws the handler
\* ends and nothing has happened.  Nothing in the handler looks for a session
\* the tab already has.
handleStartRecording(st, tabId) ==
  LET sid == SessionId(tabId, now)
  IN [st EXCEPT !.sessions = MapSet(@, sid, NewSession(tabId, now)),
                !.tabIdToSessionId = MapSet(@, tabId, sid),
                !.startRuns = @ \cup {sid},
                !.accepted = MapSet(@, sid, [ch \in Channels |-> <<>>]),
                !.writeLog = MapSet(@, sid, [ch \in Channels |-> <<>>])]

\* handleStartRecording from the return of the attach sequence (209-219)
\* on: INIT_MEDIA_CAPTURE goes to the offscreen document and the handler
\* returns success, or the send throws and the catch of the handler
\* (236-239) returns failure.
StartAttachReturned(st, sid, attachOk, sendOk) ==
  LET st1 == [st EXCEPT !.sessions[sid].debuggerAttached = attachOk,
                        !.startRuns = @ \ {sid}]
      st2 == Send(st1, "offscreen",
                  [type |-> "INIT_MEDIA_CAPTURE",
                   tabId |-> st.sessions[sid].tabId,
                   sessionStartTime |-> st.sessions[sid].sessionStartTime],
                  sendOk)
  IN Respond(st2, "START_RECORDING", sendOk)

\* Lines 406-408: what handleMediaReady requires of the session before it
\* sets status 'recording'.  The code requires only that it is registered.
ReadyAllowed(st, sid) == MapHas(st.sessions, sid)

\* Lines 410-427: buffers, pending table, batch indices and the timer of a
\* session whose debugger is attached.  setInterval makes a new interval
\* every time; flushTimers.set keeps the newest handle only.
InitTelemetry(st, sid) ==
  [st EXCEPT !.networkEventBuffers = MapSet(@, sid, <<>>),
             !.consoleEventBuffers = MapSet(@, sid, <<>>),
             !.domEventBuffers = MapSet(@, sid, <<>>),
             !.pendingNetworkRequests = MapSet(@, sid, EmptyMap),
             !.networkBatchIndices = MapSet(@, sid, 0),
             !.consoleBatchIndices = MapSet(@, sid, 0),
             !.domBatchIndices = MapSet(@, sid, 0),
             !.orphanTimers = IF sid \in st.flushTimers THEN @ \cup {sid} ELSE @,
             !.flushTimers = @ \cup {sid}]

\* handleMediaReady: the status, the telemetry state, START_DOM_RECORDING
\* to the content script, the status update to the popup, and the return.
handleMediaReady(st, sid) ==
  IF ReadyAllowed(st, sid)
  THEN LET st1 == [st EXCEPT !.sessions[sid].status = "recording"]
           st2 == IF st1.sessions[sid].debuggerAttached THEN InitTelemetry(st1, sid)
                  ELSE st1
           st3 == Send(st2, "page",
                       [type |-> "START_DOM_RECORDING",
                        sessionId |-> sid,
                        sessionStartTime |-> st2.sessions[sid].sessionStartTime],
                       Listening(st2, "page"))
           st4 == Send(st3, "popup", StatusUpdate(st3.sessions[sid], "recording"),
                       Listening(st3, "popup"))
       IN IF ~GoesOn(st3, "page") THEN Respond(st3, "MEDIA_READY", FALSE)
          ELSE Respond(st4, "MEDIA_READY", GoesOn(st4, "popup"))
  ELSE Respond(st, "MEDIA_READY", TRUE)

\* Lines 253-255: the first session of the tab, in insertion order, whose
\* status is 'recording'.  Sessions are inserted in the order of their
\* start times.
FindRecording(st, tabId) ==
  LET found == {sid \in DOMAIN st.sessions :
                  st.sessions[sid].tabId = tabId /\ st.sessions[sid].status = "recording"}
  IN IF found = {} THEN {}
     ELSE {CHOOSE sid \in found :
             \A other \in found :
               st.sessions[sid].sessionStartTime <= st.sessions[other].sessionStartTime}

\* handleStopRecording for the session found: the status and the stop time
\* (261-263), STOP_DOM_RECORDING to the content script, STOP_MEDIA_CAPTURE
\* to the offscreen document.  If that last send throws the catch of the
\* handler (293-296) returns failure.
handleStopRecording(st, sid, sendOk) ==
  LET st1 == [st EXCEPT !.sessions[sid].status = "stopping",
                        !.sessions[sid].sessionStopTime = <<now>>]
      st2 == Send(st1, "page", [type |-> "STOP_DOM_RECORDING", sessionId |-> sid],
                  Listening(st1, "page"))
      st3 == Send(st2, "offscreen", [type |-> "STOP_MEDIA_CAPTURE", sessionId |-> sid],
                  sendOk)
  IN IF ~GoesOn(st2, "page") THEN Respond(st2, "STOP_RECORDING", FALSE)
     ELSE Respond(st3, "STOP_RECORDING", sendOk)

\* Lines 565-569 and 699-703: clearInterval of the registered handle.
ClearFlushTimer(st, sid) == [st EXCEPT !.flushTimers = @ \ {sid}]

\* handleMediaStopped up to `await chrome.tabs.sendMessage(SERIALIZE_STATE)`.
handleMediaStopped(st, sid) ==
  [ClearFlushTimer(st, sid) EXCEPT !.stoppedRuns = MapSet(@, sid, "serialize")]

\* handleMediaStopped from line 586: the final flush, awaited.
FinalFlush(st, sid) ==
  LET st1 == flushTelemetryBuffers(st, sid)
  IN IF sid \in st1.flushInProgress
     THEN [st1 EXCEPT !.stoppedRuns = MapSet(@, sid, "flush")]
     ELSE AfterFinalFlush(st1, sid)

\* handleMediaStopped from the return of the SERIALIZE_STATE send (572-583)
\* on.
SerializeStateSent(st, sid) ==
  LET st1 == Send(st, "page", [type |-> "SERIALIZE_STATE", sessionId |-> sid],
                  Listening(st, "page"))
  IN IF GoesOn(st1, "page") THEN FinalFlush(st1, sid)
     ELSE Respond([st1 EXCEPT !.stoppedRuns = MapDelete(@, sid)], "MEDIA_STOPPED", FALSE)

\* handleMediaStopped from the return of cdpClient.detach (591-596) on.
StoppedDetachReturned(st, sid, ok) ==
  CompleteSession([st EXCEPT !.sessions[sid].debuggerAttached = IF ok THEN FALSE ELSE @],
                  sid)

\* An error that is recoverable whatever its stage.
AlwaysRecoverable(stage) == TRUE

\* Line 693: session.errorRecoverable = payload.stage !== 'init'.
Recoverable(stage) == stage # "init"

\* handleMediaError up to its first suspension.  With the debugger attached
\* and a stage other than 'init' that is the final flush or the detach; the
\* run keeps the handler's payload.  Otherwise the handler runs to its end:
\* for stage 'init' closeDocument is awaited, and offscreenDocumentActive
\* cleared if it succeeds (closeOk), then the error goes to the popup.
handleMediaError(st, sid, stage, error, closeOk) ==
  LET st1 == [st EXCEPT !.sessions[sid].status = "error",
                        !.sessions[sid].lastError = <<error>>,
                        !.sessions[sid].errorRecoverable = <<Recoverable(stage)>>]
  IN IF st1.sessions[sid].debuggerAttached /\ stage \in {"recording", "stopping"}
     THEN LET st2 == flushTelemetryBuffers(ClearFlushTimer(st1, sid), sid)
          IN [st2 EXCEPT !.errorRuns =
                MapSet(@, sid,
                       [pc |-> IF sid \in st2.flushInProgress THEN "flush" ELSE "detach",
                        stage |-> stage,
                        error |-> error])]
     ELSE ErrorBroadcast(IF stage = "init" /\ closeOk
                         THEN [st1 EXCEPT !.sessions[sid].offscreenDocumentActive = FALSE]
                         ELSE st1,
                         sid, error)

\* handleMediaError from the return of cdpClient.detach (709-715) on.
ErrorDetachReturned(st, sid, ok) ==
  ErrorCleanup([st EXCEPT !.sessions[sid].debuggerAttached = IF ok THEN FALSE ELSE @],
               sid)

\* A detach that ends the session.
AbortOnDetach(st, tabId) ==
  IF ~MapHas(st.tabIdToSessionId, tabId) THEN st
  ELSE LET sid == st.tabIdToSessionId[tabId]
       IN IF ~MapHas(st.sessions, sid) \/ st.sessions[sid].status # "recording" THEN st
          ELSE [st EXCEPT !.sessions[sid].debuggerAttached = FALSE,
                          !.sessions[sid].status = "error"]

\* handleCDPDetach.
handleCDPDetach(st, tabId) ==
  IF ~MapHas(st.tabIdToSessionId, tabId) THEN st
  ELSE LET sid == st.tabIdToSessionId[tabId]
       IN IF ~MapHas(st.sessions, sid) \/ st.sessions[sid].status # "recording" THEN st
          ELSE [st EXCEPT !.sessions[sid].debuggerAttached = FALSE]

(***************************************************************************)
(* Telemetry handlers.                                                     *)
(***************************************************************************)
CounterOf(session, ch) ==
  CASE ch = "network" -> session.networkEventCount
    [] ch = "console" -> session.consoleEventCount
    [] ch = "dom" -> session.domEventCount

\* An append that leaves the counter alone.
NotCounted(st, ch, sid) == st

\* An append that counts the event twice.
CountedTwice(st, ch, sid) ==
  CASE ch = "network" -> [st EXCEPT !.sessions[sid].networkEventCount = @ + 2]
    [] ch = "console" -> [st EXCEPT !.sessions[sid].consoleEventCount = @ + 2]
    [] ch = "dom" -> [st EXCEPT !.sessions[sid].domEventCount = @ + 2]

\* Lines 899, 968, 1049, 1095, 1141: the channel's counter of the session.
Counted(st, ch, sid) ==
  CASE ch = "network" -> [st EXCEPT !.sessions[sid].networkEventCount = @ + 1]
    [] ch = "console" -> [st EXCEPT !.sessions[sid].consoleEventCount = @ + 1]
    [] ch = "dom" -> [st EXCEPT !.sessions[sid].domEventCount = @ + 1]

\* A buffer that is never full.
NeverFull(buffer) == FALSE

\* Lines 902, 971, 1052, 1098, 1144: the size trigger.
BufferFull(buffer) == Len(buffer) >= BUFFER_FLUSH_SIZE

\* "Add to buffer" of the five appending handlers (895-907, 964-976,
\* 1045-1057, 1091-1103, 1137-1147): push, count, and flush when full.
AppendEvent(st, ch, sid, event) ==
  IF ~MapHas(Buffers(st, ch), sid) THEN st
  ELSE LET buffer == Append(Buffers(st, ch)[sid], event)
           st1 == Counted(WithBuffers(st, ch, MapSet(Buffers(st, ch), sid, buffer)),
                          ch, sid)
           st2 == [st1 EXCEPT !.accepted[sid][ch] = Append(@, event)]
       IN IF BufferFull(buffer) THEN flushTelemetryBuffers(st2, sid) ELSE st2

\* A lookup that takes the session of the tab whatever its status.
SessionOfTabInAnyStatus(st, tabId) ==
  IF MapHas(st.tabIdToSessionId, tabId) /\ MapHas(st.sessions, st.tabIdToSessionId[tabId])
  THEN {st.tabIdToSessionId[tabId]}
  ELSE {}

\* The lookup that opens every CDP handler: the session the tab is indexed
\* to, if it is registered and recording.
RecordingSessionOfTab(st, tabId) ==
  IF MapHas(st.tabIdToSessionId, tabId)
     /\ MapHas(st.sessions, st.tabIdToSessionId[tabId])
     /\ st.sessions[st.tabIdToSessionId[tabId]].status = "recording"
  THEN {st.tabIdToSessionId[tabId]}
  ELSE {}

\* String.prototype.toLowerCase on the letters A-Z.
UpperCase ==
  <<"A", "B", "C", "D", "E", "F", "G", "H", "I", "J", "K", "L", "M",
    "N", "O", "P", "Q", "R", "S", "T", "U", "V", "W", "X", "Y", "Z">>
LowerCase ==
  <<"a", "b", "c", "d", "e", "f", "g", "h", "i", "j", "k", "l", "m",
    "n", "o", "p", "q", "r", "s", "t", "u", "v", "w", "x", "y", "z">>
toLowerCase(name) ==
  [i \in 1..Len(name) |->
     IF \E k \in 1..26 : UpperCase[k] = name[i]
     THEN LowerCase[CHOOSE k \in 1..26 : UpperCase[k] = name[i]]
     ELSE name[i]]

\* Lines 67-74.
SENSITIVE_HEADERS ==
  {<<"a", "u", "t", "h", "o", "r", "i", "z", "a", "t", "i", "o", "n">>,
   <<"c", "o", "o", "k", "i", "e">>,
   <<"s", "e", "t", "-", "c", "o", "o", "k", "i", "e">>,
   <<"p", "r", "o", "x", "y", "-", "a", "u", "t", "h", "o", "r", "i", "z", "a", "t", "i", "o", "n">>,
   <<"x", "-", "a", "p", "i", "-", "k", "e", "y">>,
   <<"x", "-", "a", "u", "t", "h", "-", "t", "o", "k", "e", "n">>}

\* A redaction that compares the name as it was sent.
sanitizeHeadersAsSent(headers) ==
  [key \in DOMAIN headers |->
     IF key \in SENSITIVE_HEADERS THEN "[REDACTED]" ELSE headers[key]]

\* sanitizeHeaders (83-93).
sanitizeHeaders(headers) ==
  [key \in DOMAIN headers |->
     IF toLowerCase(key) \in SENSITIVE_HEADERS THEN "[REDACTED]" ELSE headers[key]]

\* A table that keeps the entry it already has for the id.
StoreIfAbsent(pendingRequests, requestId, partialEvent) ==
  IF MapHas(pendingRequests, requestId) THEN pendingRequests
  ELSE MapSet(pendingRequests, requestId, partialEvent)

\* Line 821: pendingRequests.set(params.requestId, partialEvent).
StorePending(pendingRequests, requestId, partialEvent) ==
  MapSet(pendingRequests, requestId, partialEvent)

\* handleNetworkRequestWillBeSent.
handleNetworkRequestWillBeSent(st, tabId, requestId, url, headers, wallTime) ==
  IF RecordingSessionOfTab(st, tabId) = {} THEN st
  ELSE LET sid == CHOOSE x \in RecordingSessionOfTab(st, tabId) : TRUE
       IN IF ~MapHas(st.pendingNetworkRequests, sid) THEN st
          ELSE LET partialEvent ==
                     [requestId |-> requestId,
                      url |-> url,
                      method |-> "GET",
                      headers |-> sanitizeHeaders(headers),
                      wallTime |-> wallTime,
                      videoTimestamp |->
                        cdpWallTimeToVideoOffset(wallTime,
                                                 st.sessions[sid].sessionStartTime)]
               IN [st EXCEPT !.pendingNetworkRequests[sid] =
                                StorePending(@, requestId, partialEvent)]

\* A lookup that makes up an entry for an id it does not know.
LookupOrBlank(st, sid, requestId) ==
  IF MapHas(st.pendingNetworkRequests[sid], requestId)
  THEN <<st.pendingNetworkRequests[sid][requestId]>>
  ELSE <<[requestId |-> requestId, url |-> "unknown", method |-> "GET",
          headers |-> NoHeaders, wallTime |-> 0, videoTimestamp |-> 0]>>

\* Lines 847-852 and 936-941: pendingRequests.get(params.requestId); <<>> is
\* undefined.
PendingLookup(st, sid, requestId) ==
  IF MapHas(st.pendingNetworkRequests[sid], requestId)
  THEN <<st.pendingNetworkRequests[sid][requestId]>>
  ELSE <<>>

\* A handler that leaves the entry in the table.
KeepPending(st, sid, requestId) == st

\* Lines 857, 888, 910, 947, 979: pendingRequests.delete(params.requestId).
RemovePending(st, sid, requestId) ==
  [st EXCEPT !.pendingNetworkRequests[sid] = MapDelete(@, requestId)]

\* Lines 855 and 944: the required fields of a pending entry.
Incomplete(partialEvent) ==
  partialEvent.requestId = "" \/ partialEvent.url = "" \/ partialEvent.method = ""

\* A filter that looks at the resource type only.
shouldIncludeByType(resourceType, status) ==
  resourceType \in {"XHR", "Fetch", "WebSocket", "Document"}

\* Lines 877-884.
shouldInclude(resourceType, status) ==
  \/ resourceType \in {"XHR", "Fetch", "WebSocket", "Document"}
  \/ (status # 0 /\ status >= 400)

\* Lines 862-875: the completed event.
CompletedEvent(partialEvent, status, statusText, headers) ==
  [requestId |-> partialEvent.requestId,
   url |-> partialEvent.url,
   method |-> partialEvent.method,
   headers |-> partialEvent.headers,
   wallTime |-> partialEvent.wallTime,
   videoTimestamp |-> partialEvent.videoTimestamp,
   status |-> status,
   statusText |-> statusText,
   responseHeaders |-> sanitizeHeaders(headers)]

\* handleNetworkResponse.
handleNetworkResponse(st, tabId, requestId, resourceType, status, statusText, headers) ==
  IF RecordingSessionOfTab(st, tabId) = {} THEN st
  ELSE LET sid == CHOOSE x \in RecordingSessionOfTab(st, tabId) : TRUE
       IN IF ~MapHas(st.pendingNetworkRequests, sid) THEN st
          ELSE IF PendingLookup(st, sid, requestId) = <<>> THEN st
          ELSE LET partialEvent == PendingLookup(st, sid, requestId)[1]
                   completedEvent ==
                     CompletedEvent(partialEvent, status, statusText, headers)
               IN IF Incomplete(partialEvent) THEN RemovePending(st, sid, requestId)
                  ELSE IF ~shouldInclude(resourceType, status)
                       THEN RemovePending(st, sid, requestId)
                  ELSE RemovePending(AppendEvent(st, "network", sid, completedEvent),
                                     sid, requestId)

\* A failure event with a fixed status text.
FailedEventNoText(partialEvent, errorText) ==
  [requestId |-> partialEvent.requestId,
   url |-> partialEvent.url,
   method |-> partialEvent.method,
   headers |-> partialEvent.headers,
   wallTime |-> partialEvent.wallTime,
   videoTimestamp |-> partialEvent.videoTimestamp,
   status |-> 0,
   statusText |-> "Failed"]

\* Lines 951-962: the failure event.  It has no responseHeaders.
FailedEvent(partialEvent, errorText) ==
  [requestId |-> partialEvent.requestId,
   url |-> partialEvent.url,
   method |-> partialEvent.method,
   headers |-> partialEvent.headers,
   wallTime |-> partialEvent.wallTime,
   videoTimestamp |-> partialEvent.videoTimestamp,
   status |-> 0,
   statusText |-> errorText]

\* handleNetworkLoadingFailed.
handleNetworkLoadingFailed(st, tabId, requestId, errorText) ==
  IF RecordingSessionOfTab(st, tabId) = {} THEN st
  ELSE LET sid == CHOOSE x \in RecordingSessionOfTab(st, tabId) : TRUE
       IN IF ~MapHas(st.pendingNetworkRequests, sid) THEN st
          ELSE IF PendingLookup(st, sid, requestId) = <<>> THEN st
          ELSE LET partialEvent == PendingLookup(st, sid, requestId)[1]
                   failedEvent == FailedEvent(partialEvent, errorText)
               IN IF Incomplete(partialEvent) THEN RemovePending(st, sid, requestId)
                  ELSE RemovePending(AppendEvent(st, "network", sid, failedEvent),
                                     sid, requestId)

\* Lines 1000-1017: CDP console type to ConsoleEvent level.
ConsoleLevel(type) ==
  CASE type = "warning" -> "warn"
    [] type = "error" -> "error"
    [] type = "info" -> "info"
    [] type = "debug" -> "debug"
    [] OTHER -> "log"

\* handleConsoleAPICalled.
handleConsoleAPICalled(st, tabId, type) ==
  IF RecordingSessionOfTab(st, tabId) = {} THEN st
  ELSE LET sid == CHOOSE x \in RecordingSessionOfTab(st, tabId) : TRUE
           consoleEvent ==
             [level |-> ConsoleLevel(type),
              wallTime |-> now,
              videoTimestamp |->
                calculateVideoTimestamp(st.sessions[sid].sessionStartTime, now)]
       IN AppendEvent(st, "console", sid, consoleEvent)

\* handleExceptionThrown.
handleExceptionThrown(st, tabId) ==
  IF RecordingSessionOfTab(st, tabId) = {} THEN st
  ELSE LET sid == CHOOSE x \in RecordingSessionOfTab(st, tabId) : TRUE
           consoleEvent ==
             [level |-> "error",
              wallTime |-> now,
              videoTimestamp |->
                calculateVideoTimestamp(st.sessions[sid].sessionStartTime, now)]
       IN AppendEvent(st, "console", sid, consoleEvent)

\* Lines 1144-1146: `await flushTelemetryBuffers(...)` suspends the handler
\* while the flush it started or joined is in flight.
FlushAwaited(st, sid) == sid \in st.flushInProgress

\* handleDOMEventCaptured: the session is looked up by payload.sessionId.
\* With the buffer full the handler awaits the flush before it returns.
handleDOMEventCaptured(st, sid, timestamp) ==
  IF ~MapHas(st.sessions, sid) \/ st.sessions[sid].status # "recording"
  THEN Respond(st, "DOM_EVENT_CAPTURED", FALSE)
  ELSE LET domEvent ==
             [eventType |-> "click",
              timestamp |-> timestamp,
              videoTimestamp |->
                calculateVideoTimestamp(st.sessions[sid].sessionStartTime, timestamp)]
           st1 == AppendEvent(st, "dom", sid, domEvent)
       IN IF /\ MapHas(st.domEventBuffers, sid)
             /\ BufferFull(Append(st.domEventBuffers[sid], domEvent))
             /\ FlushAwaited(st1, sid)
          THEN [st1 EXCEPT !.domEventRuns =
                  MapSet(@, sid, IF MapHas(@, sid) THEN @[sid] + 1 ELSE 1)]
          ELSE Respond(st1, "DOM_EVENT_CAPTURED", TRUE)

\* updateScreenshotMetadata: the key `${imageKey}:metadata` of the session
\* and screenshot index.
ScreenshotMetadataKey(sessionId, screenshotIndex) ==
  <<sessionId, "screenshot:metadata", screenshotIndex>>

updateScreenshotMetadata(store, sessionId, screenshotIndex, metadata) ==
  MapSet(store, ScreenshotMetadataKey(sessionId, screenshotIndex), metadata)

\* handleScreenshotCaptured: the session is looked up by payload.sessionId,
\* whatever its status.  The handler awaits the one write of the metadata
\* and then counts the screenshot; a missing session or a failed write is
\* caught and answered with failure.
handleScreenshotCaptured(st, sid, screenshotIndex, timestamp, writeOk) ==
  IF ~MapHas(st.sessions, sid) THEN Respond(st, "SCREENSHOT_CAPTURED", FALSE)
  ELSE LET videoTimestamp ==
             calculateVideoTimestamp(st.sessions[sid].sessionStartTime, timestamp)
           metadata == [timestamp |-> timestamp, videoTimestamp |-> videoTimestamp]
       IN IF ~writeOk THEN Respond(st, "SCREENSHOT_CAPTURED", FALSE)
          ELSE Respond([st EXCEPT !.idb = updateScreenshotMetadata(@, sid, screenshotIndex,
                                                                   metadata),
                                  !.sessions[sid].screenshotCount = @ + 1],
                       "SCREENSHOT_CAPTURED", TRUE)

(***************************************************************************)
(* The offscreen document: the recorder, the chunk counter and the chunks   *)
(* it stores.  st.offscreen.chunks are the chunk indices stored for the     *)
(* session, storing those whose storeChunk has not returned.                *)
(***************************************************************************)
\* sendChunkToBackground up to `await storeChunk`: without a session the
\* chunk is dropped; else the chunk takes the next index.
sendChunkToBackground(st) ==
  IF st.offscreen.sessionId = <<>> THEN st
  ELSE [st EXCEPT !.offscreen.chunkIndex = @ + 1,
                  !.offscreen.storing = @ \cup {st.offscreen.chunkIndex}]

\* mediaRecorder.ondataavailable (202-206): a blob with data is stored.
ondataavailable(st, size) == IF size > 0 THEN sendChunkToBackground(st) ELSE st

\* stopMediaCapture from the end of its wait on: the recorder is dropped,
\* MEDIA_STOPPED goes out with the count read at the start, and the
\* session tracking is reset (343-345).
MediaStoppedSent(st) ==
  [st EXCEPT !.offscreen.recorder = "none",
             !.offscreen.mediaStopped = st.offscreen.finalChunkCount,
             !.offscreen.sessionId = <<>>,
             !.offscreen.chunkIndex = 0]

(***************************************************************************)
(* GET_SESSION_STATUS.  The handler changes no state: it is a function of  *)
(* the session table, the tab asked for and what chrome.storage.local      *)
(* holds under lastSession:<tabId>.  That store outlives the service       *)
(* worker, so its content and the outcome of the read are inputs.          *)
(***************************************************************************)
\* What chrome.storage.local can hold under lastSession:<tabId>: nothing
\* (<<>>), or the record handleMediaStopped writes (632-640).
StoredLastSessions(tabId) ==
  {<<>>} \cup {<<[sessionId |-> SessionId(tabId, t), tabId |-> tabId, startTime |-> t]>> :
                 t \in Instants}

\* Line 343: Array.from(sessions.values()).find(s => s.tabId === tabId).  A
\* Map iterates in insertion order and a session is inserted at its start
\* time, so the first match is the tab's session with the earliest start.
FindSessionOfTab(st, tabId) ==
  LET ofTab == {sid \in DOMAIN st.sessions : st.sessions[sid].tabId = tabId}
  IN {sid \in ofTab :
        \A other \in ofTab :
          st.sessions[sid].sessionStartTime <= st.sessions[other].sessionStartTime}

\* handleGetSessionStatus (339-393): the reply.
handleGetSessionStatus(st, tabId, stored, readOk) ==
  IF FindSessionOfTab(st, tabId) = {}
  THEN IF readOk /\ stored # <<>>
       THEN [success |-> TRUE,
             session |-> [sessionId |-> stored[1].sessionId,
                          tabId |-> stored[1].tabId,
                          status |-> "completed",
                          sessionStartTime |-> stored[1].startTime]]
       ELSE [success |-> TRUE, session |-> [status |-> "idle", tabId |-> tabId]]
  ELSE LET session == st.sessions[CHOOSE sid \in FindSessionOfTab(st, tabId) : TRUE]
       IN [success |-> TRUE,
           session |-> [sessionId |-> session.sessionId,
                        tabId |-> session.tabId,
                        status |-> session.status,
                        sessionStartTime |-> session.sessionStartTime,
                        recordingChunkCount |-> session.recordingChunkCount,
                        screenshotCount |-> session.screenshotCount,
                        networkEventCount |-> session.networkEventCount,
                        consoleEventCount |-> session.consoleEventCount]]

(***************************************************************************)
(* Actions.  `capture` follows the offscreen document                      *)
(* (src/entrypoints/offscreen/main.ts) through its protocol for a session: *)
(* "none" before INIT_MEDIA_CAPTURE reaches it, "init" while               *)
(* initMediaCapture runs, "live" once MEDIA_READY was sent, "stopping"     *)
(* while stopMediaCapture runs, "done" afterwards.                         *)
(***************************************************************************)
UnchangedEnv == UNCHANGED <<now, capture>>

\* The popup is opened or closed, the page is loaded or left.
ReceiversChange ==
  \E listening \in SUBSET Receivers :
    /\ listening # receivers
    /\ Commit([Cur EXCEPT !.receivers = listening])
    /\ UnchangedEnv

EventsAccepted ==
  Sum([sid \in DOMAIN accepted |->
         Len(accepted[sid]["network"]) + Len(accepted[sid]["console"])
           + Len(accepted[sid]["dom"])],
      DOMAIN accepted)

\* Date.now() advances.  The first reading that matters is the T0 of the
\* first session, so the clock stands at its first instant until then.
Tick ==
  /\ DOMAIN sessions # {}
  /\ \E t \in Instants : t > now /\ now' = t
  /\ Commit(Cur)
  /\ UNCHANGED capture

\* The first START_RECORDING of the run.  Tabs are interchangeable: it is
\* for tab 1.
StartRecording ==
  \E tabId \in {1} :
    /\ DOMAIN sessions = {}
    /\ Commit(handleStartRecording(Cur, tabId))
    /\ capture' = MapSet(capture, SessionId(tabId, now), "none")
    /\ UNCHANGED now

\* A further START_RECORDING, for any tab, handled at a clock reading no
\* earlier start was handled at.
StartAnother ==
  \E tabId \in Tabs :
    /\ DOMAIN sessions # {}
    /\ \A sid \in DOMAIN sessions : sessions[sid].sessionStartTime # now
    /\ Commit(handleStartRecording(Cur, tabId))
    /\ capture' = MapSet(capture, SessionId(tabId, now), "none")
    /\ UNCHANGED now

\* A further START_RECORDING for a tab none of whose sessions is idle,
\* recording or stopping.
StartNext ==
  \E tabId \in Tabs :
    /\ DOMAIN sessions # {}
    /\ \A sid \in DOMAIN sessions :
         /\ sessions[sid].sessionStartTime # now
         /\ sessions[sid].tabId = tabId => sessions[sid].status \in {"completed", "error"}
    /\ Commit(handleStartRecording(Cur, tabId))
    /\ capture' = MapSet(capture, SessionId(tabId, now), "none")
    /\ UNCHANGED now

\* The attach sequence returns (or throws) and INIT_MEDIA_CAPTURE is sent
\* (or the send throws).
StartAttached ==
  \E sid \in startRuns, attachOk \in BOOLEAN, sendOk \in BOOLEAN :
    /\ Commit(StartAttachReturned(Cur, sid, attachOk, sendOk))
    /\ capture' = [capture EXCEPT ![sid] =
                     IF Reached(StartAttachReturned(Cur, sid, attachOk, sendOk),
                                "offscreen", "INIT_MEDIA_CAPTURE")
                     THEN "init" ELSE "none"]
    /\ UNCHANGED now

\* MEDIA_READY, sent by initMediaCapture once the recorder runs.
MediaReady ==
  \E sid \in DOMAIN sessions :
    /\ capture[sid] = "init"
    /\ Commit(handleMediaReady(Cur, sid))
    /\ capture' = [capture EXCEPT ![sid] = "live"]
    /\ UNCHANGED now

\* STOP_RECORDING for a tab with a recording session; STOP_MEDIA_CAPTURE is
\* forwarded (or the send throws, after the status was set).
StopRecording ==
  \E tabId \in Tabs, sendOk \in BOOLEAN :
    /\ FindRecording(Cur, tabId) # {}
    /\ LET sid == CHOOSE x \in FindRecording(Cur, tabId) : TRUE
       IN /\ Commit(handleStopRecording(Cur, sid, sendOk))
          /\ capture' = [capture EXCEPT ![sid] =
                           IF /\ Reached(handleStopRecording(Cur, sid, sendOk),
                                         "offscreen", "STOP_MEDIA_CAPTURE")
                              /\ @ = "live"
                           THEN "stopping" ELSE @]
    /\ UNCHANGED now

\* MEDIA_STOPPED, sent by stopMediaCapture.
MediaStopped ==
  \E sid \in DOMAIN sessions :
    /\ capture[sid] = "stopping"
    /\ ~MapHas(stoppedRuns, sid)
    /\ Commit(handleMediaStopped(Cur, sid))
    /\ capture' = [capture EXCEPT ![sid] = "done"]
    /\ UNCHANGED now

\* The SERIALIZE_STATE send returns or throws.
MediaStoppedFlush ==
  \E sid \in DOMAIN stoppedRuns :
    /\ stoppedRuns[sid] = "serialize"
    /\ Commit(SerializeStateSent(Cur, sid))
    /\ UnchangedEnv

MediaStoppedDetached ==
  \E sid \in DOMAIN stoppedRuns, ok \in BOOLEAN :
    /\ stoppedRuns[sid] = "detach"
    /\ Commit(StoppedDetachReturned(Cur, sid, ok))
    /\ UnchangedEnv

\* The stage the offscreen document reports in each phase: 'init' from
\* initMediaCapture; 'recording' from the recorder's onerror and from
\* captureScreenshot, while the recorder exists, which is until
\* stopMediaCapture has stopped it (the capture goes on); 'stopping' from
\* stopMediaCapture, which then sends no MEDIA_STOPPED.
StageOfPhase(phase, stage) ==
  \/ phase = "init" /\ stage = "init"
  \/ phase = "live" /\ stage = "recording"
  \/ phase = "stopping" /\ stage \in {"recording", "stopping"}

\* MEDIA_ERROR, sent by sendMediaError.
MediaError ==
  \E sid \in DOMAIN sessions, stage \in Stages, error \in MediaErrors,
     closeOk \in BOOLEAN :
    /\ StageOfPhase(capture[sid], stage)
    /\ ~MapHas(errorRuns, sid)
    /\ Commit(handleMediaError(Cur, sid, stage, error, closeOk))
    /\ capture' = [capture EXCEPT ![sid] = IF stage = "recording" THEN @ ELSE "done"]
    /\ UNCHANGED now

MediaErrorDetached ==
  \E sid \in DOMAIN errorRuns, ok \in BOOLEAN :
    /\ errorRuns[sid].pc = "detach"
    /\ Commit(ErrorDetachReturned(Cur, sid, ok))
    /\ UnchangedEnv

\* chrome.debugger.onDetach.
CDPDetach ==
  \E tabId \in Tabs :
    /\ Commit(handleCDPDetach(Cur, tabId))
    /\ UnchangedEnv

\* An interval made by setInterval at line 423 fires.
TimerFires ==
  \E sid \in flushTimers \cup orphanTimers :
    /\ Commit(flushTelemetryBuffers(Cur, sid))
    /\ UnchangedEnv

\* The store call of a flush returns.
WriteSucceeds ==
  \E run \in flushRuns :
    /\ Commit(WriteReturned(Cur, run, TRUE))
    /\ UnchangedEnv

\* The store call of a flush throws.
WriteFails ==
  \E run \in flushRuns :
    /\ Commit(WriteReturned(Cur, run, FALSE))
    /\ UnchangedEnv

\* Network.requestWillBeSent.
\* params.wallTime is the wall clock at which the page issued the request:
\* the event reaches the handler within the second that follows.
Timely(request) ==
  10 * now <= request.wallTime /\ request.wallTime < 10 * (now + 1000)

RequestWillBeSent ==
  \E tabId \in Tabs, request \in Requests :
    /\ Timely(request)
    /\ Commit(handleNetworkRequestWillBeSent(Cur, tabId, request.requestId,
                                             request.url, request.headers,
                                             request.wallTime))
    /\ UnchangedEnv

RequestWillBeSentOther ==
  \E tabId \in Tabs, request \in OtherRequests :
    /\ Timely(request)
    /\ Commit(handleNetworkRequestWillBeSent(Cur, tabId, request.requestId,
                                             request.url, request.headers,
                                             request.wallTime))
    /\ UnchangedEnv

RequestWillBeSentLater ==
  \E tabId \in Tabs, request \in LaterRequests :
    /\ Timely(request)
    /\ Commit(handleNetworkRequestWillBeSent(Cur, tabId, request.requestId,
                                             request.url, request.headers,
                                             request.wallTime))
    /\ UnchangedEnv

RequestWillBeSentEarly ==
  \E tabId \in Tabs, request \in EarlyRequests :
    /\ Commit(handleNetworkRequestWillBeSent(Cur, tabId, request.requestId,
                                             request.url, request.headers,
                                             request.wallTime))
    /\ UnchangedEnv

StatusTextOf(status) == IF status = 200 THEN "OK" ELSE "Not Found"

\* Network.responseReceived.
ResponseReceived ==
  \E tabId \in Tabs, request \in Requests, response \in Responses :
    /\ EventsAccepted < MaxEvents
    /\ Commit(handleNetworkResponse(Cur, tabId, request.requestId, response.type,
                                    response.status, StatusTextOf(response.status),
                                    response.headers))
    /\ UnchangedEnv

ResponseReceivedOther ==
  \E tabId \in Tabs, requestId \in RequestIds,
     response \in Responses \cup OtherResponses :
    /\ requestId \notin {r.requestId : r \in Requests} \/ response \in OtherResponses
    /\ EventsAccepted < MaxEvents
    /\ Commit(handleNetworkResponse(Cur, tabId, requestId, response.type,
                                    response.status, StatusTextOf(response.status),
                                    response.headers))
    /\ UnchangedEnv

LoadingFailed ==
  \E tabId \in Tabs, requestId \in RequestIds :
    /\ EventsAccepted < MaxEvents
    /\ Commit(handleNetworkLoadingFailed(Cur, tabId, requestId, "net::ERR_FAILED"))
    /\ UnchangedEnv

\* Runtime.consoleAPICalled.
ConsoleAPICalled ==
  \E tabId \in Tabs, type \in ConsoleTypes :
    /\ EventsAccepted < MaxEvents
    /\ Commit(handleConsoleAPICalled(Cur, tabId, type))
    /\ UnchangedEnv

\* Console calls that go on while a flush is in flight, one more than fill
\* the buffer.
ConsoleAPICalledBacklog ==
  \E tabId \in Tabs, type \in ConsoleTypes :
    /\ EventsAccepted < MaxBacklog
    /\ Commit(handleConsoleAPICalled(Cur, tabId, type))
    /\ UnchangedEnv

ConsoleAPICalledOther ==
  \E tabId \in Tabs, type \in OtherConsoleTypes :
    /\ EventsAccepted < MaxEvents
    /\ Commit(handleConsoleAPICalled(Cur, tabId, type))
    /\ UnchangedEnv

ExceptionThrown ==
  \E tabId \in Tabs :
    /\ EventsAccepted < MaxEvents
    /\ Commit(handleExceptionThrown(Cur, tabId))
    /\ UnchangedEnv

DOMEventCaptured ==
  \E sid \in DOMAIN sessions, timestamp \in DomTimestamps :
    /\ EventsAccepted < MaxEvents
    /\ Commit(handleDOMEventCaptured(Cur, sid, timestamp))
    /\ UnchangedEnv

\* SCREENSHOT_CAPTURED, sent by the offscreen document after it has stored
\* the image.  MaxScreenshots bounds the counter.
ScreenshotCaptured ==
  \E sid \in DOMAIN sessions, screenshotIndex \in ScreenshotIndices,
     timestamp \in ScreenshotTimestamps, writeOk \in BOOLEAN :
    /\ sessions[sid].screenshotCount < MaxScreenshots
    /\ Commit(handleScreenshotCaptured(Cur, sid, screenshotIndex, timestamp, writeOk))
    /\ UnchangedEnv

\* INIT_MEDIA_CAPTURE reaches the offscreen document, once in a run:
\* initMediaCapture keeps the session id, resets chunkIndex (92-93) and
\* starts the recorder with a timeslice (215).
InitMediaCapture ==
  /\ offscreen.recorder = "none"
  /\ offscreen.mediaStopped = <<>>
  /\ Commit([Cur EXCEPT !.offscreen.recorder = "recording",
                        !.offscreen.sessionId = <<1>>,
                        !.offscreen.chunkIndex = 0])
  /\ UnchangedEnv

\* The timeslice of the recorder elapses.
DataAvailable ==
  \E size \in ChunkSizes :
    /\ offscreen.recorder = "recording"
    /\ offscreen.chunkIndex < MaxChunks
    /\ Commit(ondataavailable(Cur, size))
    /\ UnchangedEnv

\* storeChunk returns or throws; the catch of sendChunkToBackground drops
\* the chunk and the recording goes on.
ChunkStored ==
  \E index \in offscreen.storing, ok \in BOOLEAN :
    /\ Commit([Cur EXCEPT !.offscreen.storing = @ \ {index},
                          !.offscreen.chunks = IF ok THEN @ \cup {index}
                                               ELSE @])
    /\ UnchangedEnv

\* STOP_MEDIA_CAPTURE reaches the offscreen document: stopMediaCapture up
\* to the wait for the recorder's final event.  The count is read (249),
\* the listeners are added and the recorder stopped (286-288).
StopMediaCapture ==
  /\ offscreen.recorder = "recording"
  /\ Commit([Cur EXCEPT !.offscreen.finalChunkCount = <<offscreen.chunkIndex>>,
                        !.offscreen.recorder = "stopping"])
  /\ UnchangedEnv

\* The stopped recorder emits its final dataavailable: ondataavailable runs
\* first, then the listener that ends the wait of stopMediaCapture.
FinalDataAvailable ==
  \E size \in ChunkSizes :
    /\ offscreen.recorder = "stopping"
    /\ Commit(MediaStoppedSent(ondataavailable(Cur, size)))
    /\ UnchangedEnv

\* The 5 second timeout ends the wait before any final event; data the
\* recorder emits afterwards finds no session and is dropped.
StopTimeout ==
  /\ offscreen.recorder = "stopping"
  /\ Commit(MediaStoppedSent(Cur))
  /\ UnchangedEnv

\* registered session at any time.
StrayMediaReady ==
  \E sid \in DOMAIN sessions :
    /\ capture[sid] # "init"
    /\ Commit(handleMediaReady(Cur, sid))
    /\ UnchangedEnv

StrayMediaStopped ==
  \E sid \in DOMAIN sessions :
    /\ capture[sid] # "stopping"
    /\ ~MapHas(stoppedRuns, sid)
    /\ Commit(handleMediaStopped(Cur, sid))
    /\ UnchangedEnv

StrayMediaError ==
  \E sid \in DOMAIN sessions, stage \in Stages, error \in MediaErrors,
     closeOk \in BOOLEAN :
    /\ ~StageOfPhase(capture[sid], stage)
    /\ ~MapHas(errorRuns, sid)
    /\ Commit(handleMediaError(Cur, sid, stage, error, closeOk))
    /\ UnchangedEnv

\* The collaborators keep to the protocol.
Next ==
  \/ Tick
  \/ StartRecording
  \/ StartAttached
  \/ MediaReady
  \/ StopRecording
  \/ MediaStopped
  \/ MediaStoppedFlush
  \/ MediaStoppedDetached
  \/ MediaError
  \/ MediaErrorDetached
  \/ CDPDetach
  \/ TimerFires
  \/ WriteSucceeds
  \/ WriteFails
  \/ RequestWillBeSent
  \/ ResponseReceived
  \/ ConsoleAPICalled
  \/ DOMEventCaptured

Spec == Init /\ [][Next]_vars

\* One recording session with the handlers of the three channels and the
\* further console payloads.
NextTelemetry ==
  \/ Tick
  \/ StartRecording
  \/ StartAttached
  \/ MediaReady
  \/ TimerFires
  \/ WriteSucceeds
  \/ RequestWillBeSent
  \/ ResponseReceived
  \/ ConsoleAPICalled
  \/ ConsoleAPICalledOther
  \/ ExceptionThrown
  \/ DOMEventCaptured

SpecTelemetry == Init /\ [][NextTelemetry]_vars

\* One recording session and the network handlers alone, with the further
\* payloads and a request issued after the clock has moved.
NextNetwork ==
  \/ Tick
  \/ StartRecording
  \/ StartAttached
  \/ MediaReady
  \/ TimerFires
  \/ WriteSucceeds
  \/ RequestWillBeSent
  \/ RequestWillBeSentOther
  \/ RequestWillBeSentLater
  \/ ResponseReceived
  \/ ResponseReceivedOther
  \/ LoadingFailed

SpecNetwork == Init /\ [][NextNetwork]_vars

\* One session with every source of a video offset: console, DOM and
\* network events, screenshots, and a request dated before T0.
NextOffsets ==
  \/ Tick
  \/ StartRecording
  \/ StartAttached
  \/ MediaReady
  \/ StopRecording
  \/ TimerFires
  \/ WriteSucceeds
  \/ RequestWillBeSent
  \/ RequestWillBeSentEarly
  \/ ResponseReceived
  \/ ConsoleAPICalled
  \/ DOMEventCaptured
  \/ ScreenshotCaptured

SpecOffsets == Init /\ [][NextOffsets]_vars

\* Sessions that follow one another on a tab: the lifecycle alone, a start
\* being requested for a tab only when its earlier sessions have ended.
NextSuccessive ==
  \/ Tick
  \/ StartRecording
  \/ StartNext
  \/ StartAttached
  \/ MediaReady
  \/ StopRecording
  \/ MediaStopped
  \/ MediaStoppedFlush
  \/ MediaStoppedDetached
  \/ MediaError
  \/ MediaErrorDetached

SpecSuccessive == Init /\ [][NextSuccessive]_vars

\* One recording session whose console events outrun its flushes.
NextBacklog ==
  \/ Tick
  \/ StartRecording
  \/ StartAttached
  \/ MediaReady
  \/ TimerFires
  \/ WriteSucceeds
  \/ ConsoleAPICalledBacklog

SpecBacklog == Init /\ [][NextBacklog]_vars

\* The offscreen document alone: one capture from start to stop.
NextChunks ==
  \/ InitMediaCapture
  \/ DataAvailable
  \/ ChunkStored
  \/ StopMediaCapture
  \/ FinalDataAvailable
  \/ StopTimeout

SpecChunks == Init /\ [][NextChunks]_vars

\* console channel as the telemetry.
NextAnyOrder ==
  \/ StartRecording
  \/ StartAttached
  \/ MediaReady
  \/ StopRecording
  \/ MediaStopped
  \/ MediaStoppedFlush
  \/ MediaStoppedDetached
  \/ MediaError
  \/ MediaErrorDetached
  \/ StrayMediaReady
  \/ StrayMediaStopped
  \/ StrayMediaError
  \/ TimerFires
  \/ WriteSucceeds
  \/ WriteFails
  \/ ConsoleAPICalled

SpecAnyOrder == Init /\ [][NextAnyOrder]_vars

\* The lifecycle with MEDIA_READY arriving at any time, while the clock
\* moves.
NextReadyAnyTime ==
  \/ Tick
  \/ StartRecording
  \/ StartAttached
  \/ MediaReady
  \/ StrayMediaReady
  \/ StopRecording
  \/ MediaStopped
  \/ MediaStoppedFlush
  \/ MediaStoppedDetached
  \/ TimerFires
  \/ WriteSucceeds
  \/ ConsoleAPICalled

SpecReadyAnyTime == Init /\ [][NextReadyAnyTime]_vars

\* Several sessions: the lifecycle with the DOM channel as its telemetry.
NextSessions ==
  \/ Tick
  \/ StartRecording
  \/ StartAnother
  \/ StartAttached
  \/ MediaReady
  \/ StopRecording
  \/ MediaStopped
  \/ MediaStoppedFlush
  \/ MediaStoppedDetached
  \/ MediaError
  \/ MediaErrorDetached
  \/ TimerFires
  \/ WriteSucceeds
  \/ DOMEventCaptured

SpecSessions == Init /\ [][NextSessions]_vars

\* One session through its lifecycle while the popup and the content script
\* come and go, with the console channel as the telemetry.
NextNotify ==
  \/ ReceiversChange
  \/ StartRecording
  \/ StartAttached
  \/ MediaReady
  \/ StopRecording
  \/ MediaStopped
  \/ MediaStoppedFlush
  \/ MediaStoppedDetached
  \/ MediaError
  \/ MediaErrorDetached
  \/ TimerFires
  \/ WriteSucceeds
  \/ ConsoleAPICalled

SpecNotify == Init /\ [][NextNotify]_vars

(***************************************************************************)
(* Properties.                                                             *)
(***************************************************************************)
Count(s, e) == Cardinality({i \in DOMAIN s : s[i] = e})

IsPrefix(s, t) == Len(s) <= Len(t) /\ SubSeq(t, 1, Len(s)) = s

ChannelIndex(ch) == CHOOSE i \in DOMAIN ChannelOrder : ChannelOrder[i] = ch

ChannelBuffers(ch) ==
  CASE ch = "network" -> networkEventBuffers
    [] ch = "console" -> consoleEventBuffers
    [] ch = "dom" -> domEventBuffers

\* The flush executions of a session among `runs`.
RunsOf(runs, sid) == {run \in runs : run.sid = sid}

\* The events of a channel that in-flight flushes hold and have not stored.
Unwritten(run, ch) == IF run.pc <= ChannelIndex(ch) THEN RunEvents(run, ch) ELSE <<>>

CountInFlight(sid, ch, e) ==
  Sum([run \in RunsOf(flushRuns, sid) |-> Count(Unwritten(run, ch), e)],
      RunsOf(flushRuns, sid))

\* Every value that is an event of the session and channel anywhere.
EventsKnown(sid, ch) ==
  Range(accepted[sid][ch]) \cup Range(getEvents(idb, sid, ch))
    \cup Range(ChannelBuffers(ch)[sid])
    \cup UNION {Range(RunEvents(run, ch)) : run \in RunsOf(flushRuns, sid)}

\* The handlers suspended in `await flushTelemetryBuffers(sid)`.
AwaitsFlush(sid) ==
  \/ MapHas(stoppedRuns, sid) /\ stoppedRuns[sid] = "flush"
  \/ MapHas(errorRuns, sid) /\ errorRuns[sid].pc = "flush"

\* C1: per session at most one execution of doFlushTelemetryBuffers is in
\* flight, it is the one the guard map registers, and a handler whose
\* flushTelemetryBuffers call found a flush in flight is suspended exactly
\* as long as that execution is in flight.
SingleFlightFlush ==
  \A sid \in DOMAIN sessions :
    /\ Cardinality(RunsOf(flushRuns, sid)) <= 1
    /\ sid \in flushInProgress <=> RunsOf(flushRuns, sid) # {}
    /\ AwaitsFlush(sid) => Cardinality(RunsOf(flushRuns, sid)) = 1

\* The final flush of handleMediaStopped found a flush in flight: the events
\* appended after that flush began are still in a buffer.
SingleFlightFlushWitness ==
  \E sid \in DOMAIN stoppedRuns :
    /\ stoppedRuns[sid] = "flush"
    /\ RunsOf(flushRuns, sid) # {}
    /\ \E ch \in Channels : ChannelBuffers(ch)[sid] # <<>>

\* C2: while a session has its buffers and none of its writes has failed,
\* every event value occurs as often among the events accepted for a channel
\* as in the persisted batches, the unwritten events of the in-flight flush
\* and the buffer taken together.
ExactlyOncePersistence ==
  \A sid \in DOMAIN networkEventBuffers :
    sid \notin failedWrites =>
      \A ch \in Channels : \A e \in EventsKnown(sid, ch) :
        Count(accepted[sid][ch], e)
          = Count(getEvents(idb, sid, ch), e) + CountInFlight(sid, ch, e)
              + Count(ChannelBuffers(ch)[sid], e)

\* One event of a session is persisted while a flush holding another is in
\* flight.
ExactlyOncePersistenceWitness ==
  \E sid \in DOMAIN networkEventBuffers :
    /\ sid \notin failedWrites
    /\ \E ch \in Channels : getEvents(idb, sid, ch) # <<>>
    /\ \E run \in RunsOf(flushRuns, sid), ch \in Channels : Unwritten(run, ch) # <<>>

\* A flush execution begins for the session in this step.
FlushStarts(sid) == RunsOf(flushRuns, sid) = {} /\ RunsOf(flushRuns', sid) # {}

\* The flush that begins leaves every buffer of the session empty.
SwapEmptiesBuffers(sid) ==
  FlushStarts(sid) =>
    \A ch \in Channels :
      MapHas(ChannelBuffers(ch)', sid) => ChannelBuffers(ch)'[sid] = <<>>

\* An event accepted while a flush is in flight joins the buffer, not the
\* events the flush holds.
AppendStaysOut(sid) ==
  \A ch \in Channels :
    (RunsOf(flushRuns, sid) # {} /\ Len(accepted'[sid][ch]) > Len(accepted[sid][ch]))
      => /\ flushRuns' = flushRuns
         /\ MapHas(ChannelBuffers(ch)', sid)
         /\ ChannelBuffers(ch)'[sid]
              = Append(ChannelBuffers(ch)[sid],
                       accepted'[sid][ch][Len(accepted'[sid][ch])])

\* A batch stored in this step holds what its flush took at its start, at an
\* index above every index stored before.
BatchIsWhatWasTaken(sid) ==
  \A ch \in Channels :
    \A i \in StoredIndices(idb', sid, ch) \ StoredIndices(idb, sid, ch) :
      /\ \E run \in RunsOf(flushRuns, sid) :
           /\ run.pc = ChannelIndex(ch) /\ run.batchIndex = i
           /\ idb'[BatchKey(sid, ch, i)] = RunEvents(run, ch)
      /\ \A j \in StoredIndices(idb, sid, ch) : j < i

\* A buffered event leaves the buffer only into a flush that begins.
BufferedEventsKept(sid) ==
  \A ch \in Channels :
    (MapHas(ChannelBuffers(ch), sid) /\ ChannelBuffers(ch)[sid] # <<>>)
      => \/ /\ MapHas(ChannelBuffers(ch)', sid)
            /\ IsPrefix(ChannelBuffers(ch)[sid], ChannelBuffers(ch)'[sid])
         \/ \E run \in RunsOf(flushRuns', sid) \ flushRuns :
              IsPrefix(ChannelBuffers(ch)[sid], RunEvents(run, ch))

\* C3: a flush that begins empties the three buffers of its session in the
\* step it begins in; an event appended while its write is in flight goes to
\* the buffer and not into the batch being written; the batch stored is what
\* the flush took, at a higher index than the batches before; and while no
\* write has failed and the session is not in error a buffered event leaves
\* its buffer only by being taken by a flush, so that a later flush writes it.
AtomicSwap ==
  [][\A sid \in DOMAIN sessions :
       /\ SwapEmptiesBuffers(sid)
       /\ AppendStaysOut(sid)
       /\ BatchIsWhatWasTaken(sid)
       /\ (failedWrites' = {} /\ sessions'[sid].status # "error")
            => BufferedEventsKept(sid)]_vars

\* C4: once a session is completed, with none of its writes failed, every
\* event value occurs as often in the persisted batches of a channel as
\* among the events accepted for it.
StopPersistsEverything ==
  \A sid \in DOMAIN sessions :
    (sessions[sid].status = "completed" /\ sid \notin failedWrites) =>
      \A ch \in Channels : \A e \in Range(accepted[sid][ch]) :
        Count(getEvents(idb, sid, ch), e) = Count(accepted[sid][ch], e)

\* Section 4.1: the edges of the status state machine.
LegalEdge(from, to) ==
  \/ from = to
  \/ from = "idle" /\ to = "recording"
  \/ from = "recording" /\ to = "stopping"
  \/ from = "stopping" /\ to = "completed"
  \/ to = "error"

\* C5: every step changes the status of a session along a legal edge or not
\* at all.
StatusFollowsLegalEdges ==
  [][\A sid \in DOMAIN sessions :
       LegalEdge(sessions[sid].status, sessions'[sid].status)]_vars

ActiveStatus == {"idle", "recording", "stopping"}

\* C6: no two sessions of one tab are active (idle, recording or stopping)
\* at once.
OneActiveSessionPerTab ==
  \A s1 \in DOMAIN sessions, s2 \in DOMAIN sessions :
    (/\ s1 # s2
     /\ sessions[s1].tabId = sessions[s2].tabId
     /\ sessions[s1].status \in ActiveStatus)
      => sessions[s2].status \notin ActiveStatus

\* C7: for every session and channel the batch indices written, in the order
\* of the writes, are 0, 1, ..., n-1.
BatchIndicesContiguous ==
  \A sid \in DOMAIN writeLog : \A ch \in Channels :
    \A i \in DOMAIN writeLog[sid][ch] : writeLog[sid][ch][i] = i - 1

\* What the buffer of the channel holds when the flush of this step begins:
\* the buffer as it was, with the event appended by this step if it is the
\* append that triggers the flush.
BufferedAtStart(sid, ch) ==
  LET buffer == IF MapHas(ChannelBuffers(ch), sid) THEN ChannelBuffers(ch)[sid] ELSE <<>>
      log == accepted'[sid][ch]
  IN IF Len(log) > Len(accepted[sid][ch]) THEN Append(buffer, log[Len(log)]) ELSE buffer

\* A network write of the session returns with success in this step.
NetworkWriteDone(sid) ==
  Len(writeLog'[sid]["network"]) > Len(writeLog[sid]["network"])

\* C8: a flush that begins with network events buffered holds exactly the
\* buffered events, in order; its network write is for the index equal to the
\* number of network batches written so far; when the write returns the store
\* has gained that one batch with those events and the index of the session
\* (unless the teardown of the session, resumed by the same return, has
\* deleted it) is the next one; a step in which no network write returns changes neither
\* the stored network batches nor the index.
NetworkFlushWritesOneBatch ==
  [][\A sid \in DOMAIN sessions :
       /\ FlushStarts(sid) =>
            \A run \in RunsOf(flushRuns', sid) :
              /\ run.network = BufferedAtStart(sid, "network")
              /\ run.pc = 1 <=> run.network # <<>>
       /\ \A run \in RunsOf(flushRuns', sid) :
            run.pc = 1 =>
              /\ run.batchIndex = Len(writeLog'[sid]["network"])
              /\ run.batchIndex \notin StoredIndices(idb', sid, "network")
       /\ NetworkWriteDone(sid) =>
            \E run \in RunsOf(flushRuns, sid) :
              /\ run.pc = 1
              /\ StoredIndices(idb', sid, "network")
                   = StoredIndices(idb, sid, "network") \cup {run.batchIndex}
              /\ idb'[BatchKey(sid, "network", run.batchIndex)] = run.network
              /\ \A i \in StoredIndices(idb, sid, "network") :
                   idb'[BatchKey(sid, "network", i)] = idb[BatchKey(sid, "network", i)]
              /\ MapHas(networkBatchIndices', sid)
                   => networkBatchIndices'[sid] = run.batchIndex + 1
       /\ ~NetworkWriteDone(sid) =>
            /\ StoredIndices(idb', sid, "network") = StoredIndices(idb, sid, "network")
            /\ (MapHas(networkBatchIndices, sid) /\ MapHas(networkBatchIndices', sid))
                 => networkBatchIndices'[sid] = networkBatchIndices[sid]]_vars

\* Two consecutive network batches of a session are stored.
NetworkFlushWritesOneBatchWitness ==
  \E sid \in DOMAIN sessions : StoredIndices(idb, sid, "network") = {0, 1}

\* C9: while a session has its buffers, whether or not a write has failed,
\* every accepted event is held: it occurs at least as often in the
\* persisted batches, the unwritten events of the in-flight flush and the
\* buffer taken together as among the accepted events.
FailedWriteLosesNothing ==
  \A sid \in DOMAIN networkEventBuffers :
    \A ch \in Channels : \A e \in Range(accepted[sid][ch]) :
      Count(accepted[sid][ch], e)
        <= Count(getEvents(idb, sid, ch), e) + CountInFlight(sid, ch, e)
             + Count(ChannelBuffers(ch)[sid], e)

\* The completed event of the scenario: request r1 sent at wall time 1.0500 s,
\* answered with status 200.
ScenarioEvent(e) == e.requestId = "r1" /\ e.wallTime = 10500 /\ e.status = 200

\* C10: in a session with T0 = 1000 whose only accepted network event is the
\* one of the scenario, the event has videoTimestamp 50, networkEventCount
\* is 1, and the event is in the buffer, or alone in the flush in flight for
\* network batch 0, or alone in network batch 0, the only network batch.
EndToEndScenario ==
  \A sid \in DOMAIN networkEventBuffers :
    LET events == accepted[sid]["network"]
    IN (/\ sessions[sid].sessionStartTime = 1000
        /\ Len(events) = 1
        /\ ScenarioEvent(events[1]))
         => /\ events[1].videoTimestamp = 50
            /\ sessions[sid].networkEventCount = 1
            /\ \/ networkEventBuffers[sid] = events
               \/ \E run \in RunsOf(flushRuns, sid) :
                    run.pc = 1 /\ run.batchIndex = 0 /\ run.network = events
               \/ /\ StoredIndices(idb, sid, "network") = {0}
                  /\ idb[BatchKey(sid, "network", 0)] = events

\* The event of the scenario is the content of network batch 0.
EndToEndScenarioWitness ==
  \E sid \in DOMAIN networkEventBuffers :
    /\ sessions[sid].sessionStartTime = 1000
    /\ Len(accepted[sid]["network"]) = 1
    /\ ScenarioEvent(accepted[sid]["network"][1])
    /\ StoredIndices(idb, sid, "network") = {0}
    /\ idb[BatchKey(sid, "network", 0)] = accepted[sid]["network"]

\* The last n elements of a sequence.
Suffix(s, n) == SubSeq(s, Len(s) - n + 1, Len(s))

\* C11: in every reachable state, for every session and channel, the
\* session's counter equals the number of events appended to the channel's
\* buffer for the session since its creation, and the unflushed buffer (while
\* the session has one) holds the latest of these events: the counter counts
\* the events that sit in the buffer as well as those taken by a flush.
CountersCountAcceptedEvents ==
  \A sid \in DOMAIN sessions : \A ch \in Channels :
    /\ CounterOf(sessions[sid], ch) = Len(accepted[sid][ch])
    /\ MapHas(ChannelBuffers(ch), sid)
         => /\ Len(ChannelBuffers(ch)[sid]) <= Len(accepted[sid][ch])
            /\ ChannelBuffers(ch)[sid]
                 = Suffix(accepted[sid][ch], Len(ChannelBuffers(ch)[sid]))

\* A session counts two events of a channel: one persisted in a batch, one
\* in the unflushed buffer.
CountersCountAcceptedEventsWitness ==
  \E sid \in DOMAIN sessions : \E ch \in Channels :
    /\ CounterOf(sessions[sid], ch) = 2
    /\ MapHas(ChannelBuffers(ch), sid)
    /\ Len(ChannelBuffers(ch)[sid]) = 1
    /\ Len(getEvents(idb, sid, ch)) = 1

\* The sessions registered for a tab, and those of them that are live.
SessionsOfTab(tabId) == {sid \in DOMAIN sessions : sessions[sid].tabId = tabId}

LiveSessionsOfTab(tabId) ==
  {sid \in SessionsOfTab(tabId) : sessions[sid].status \notin {"completed", "error"}}

\* C12: a status query for a tab succeeds whatever the durable read does;
\* while a live session of the tab is registered the reply is a live session
\* of the tab, whatever completed or errored sessions of the tab are
\* registered as well; while no session of the tab is registered the reply
\* is the stored last session, as completed, if the read returns one, and
\* the idle placeholder if not.
StatusQueryReturnsLiveSession ==
  \A tabId \in Tabs : \A stored \in StoredLastSessions(tabId) : \A readOk \in BOOLEAN :
    LET reply == handleGetSessionStatus(Cur, tabId, stored, readOk)
    IN /\ reply.success
       /\ LiveSessionsOfTab(tabId) # {}
            => /\ reply.session.status \notin {"completed", "error"}
               /\ reply.session.sessionId \in LiveSessionsOfTab(tabId)
       /\ (SessionsOfTab(tabId) = {} /\ readOk /\ stored # <<>>)
            => /\ reply.session.status = "completed"
               /\ reply.session.sessionId = stored[1].sessionId
       /\ (SessionsOfTab(tabId) = {} /\ ~(readOk /\ stored # <<>>))
            => reply.session = [status |-> "idle", tabId |-> tabId]

\* The age of a pending entry at clock reading `clock` (ms) exceeds 2
\* minutes; wallTime counts 0.1 ms.
OlderThanTTL(entry, clock) == 10 * clock - entry.wallTime > 10 * 120000

\* No entry of the session's pending table, if it still has one, is older
\* than 2 minutes once the step is taken.
NoOldEntryLeft(sid) ==
  MapHas(pendingNetworkRequests', sid)
    => \A r \in DOMAIN pendingNetworkRequests'[sid] :
         ~OlderThanTTL(pendingNetworkRequests'[sid][r], now')

\* The step is a flush cycle of the session that found every buffer empty:
\* it starts and ends in one run.
EmptyFlushCycle(sid) ==
  /\ sid \in flushTimers
  /\ sid \notin flushInProgress
  /\ \A ch \in Channels : MapHas(ChannelBuffers(ch), sid) => ChannelBuffers(ch)[sid] = <<>>
  /\ Commit(flushTelemetryBuffers(Cur, sid))
  /\ UnchangedEnv

\* The step ends a flush cycle of the session that was suspended in a write.
FlushCycleEnds(sid) == RunsOf(flushRuns, sid) # {} /\ RunsOf(flushRuns', sid) = {}

\* The step ends a flush cycle of the session with the return of a write
\* that succeeded: a cycle whose write fails ends with that write.
FlushCycleSucceeds(sid) == FlushCycleEnds(sid) /\ writeLog'[sid] # writeLog[sid]

\* No response and no load-failure for the request adds a network event.
NoEventFor(sid, requestId) ==
  \A response \in Responses \cup OtherResponses :
    \A after \in {handleNetworkResponse(Cur, sessions[sid].tabId, requestId,
                                        response.type, response.status,
                                        StatusTextOf(response.status), response.headers),
                  handleNetworkLoadingFailed(Cur, sessions[sid].tabId, requestId,
                                             "net::ERR_FAILED")} :
      /\ after.networkEventBuffers = networkEventBuffers
      /\ after.sessions = sessions
      /\ after.flushRuns = flushRuns

\* C13: when a flush cycle whose writes succeeded ends (or one that had
\* nothing to write runs), the session's pending table holds no request
\* older than 2 minutes at that clock reading; and as long as a request the
\* sweep removed is not sent again, a response or a load-failure for it
\* leaves the network buffer, the counters and the flushes as they are.
ExpiredRequestIsSwept ==
  /\ [][\A sid \in DOMAIN sessions :
          (FlushCycleSucceeds(sid) \/ EmptyFlushCycle(sid))
            => NoOldEntryLeft(sid)]_vars
  /\ [](\A e \in evicted :
          (/\ MapHas(pendingNetworkRequests, e[1])
           /\ ~MapHas(pendingNetworkRequests[e[1]], e[2])
           /\ RecordingSessionOfTab(Cur, sessions[e[1]].tabId) = {e[1]})
            => NoEventFor(e[1], e[2]))

\* The sweep removed r1 from the pending table of a recording session and
\* kept the request issued two minutes later.
ExpiredRequestIsSweptWitness ==
  \E sid \in DOMAIN sessions :
    /\ <<sid, "r1">> \in evicted
    /\ sessions[sid].status = "recording"
    /\ MapHas(pendingNetworkRequests, sid)
    /\ DOMAIN pendingNetworkRequests[sid] = {"r2"}
    /\ ~OlderThanTTL(pendingNetworkRequests[sid]["r2"], now)

\* C14: when a flush cycle of a session ends, whatever started it and
\* whether its writes succeeded or one of them failed, the session's pending
\* table holds no request older than 2 minutes.
EveryFlushCycleSweeps ==
  [][\A sid \in DOMAIN sessions :
       (FlushCycleEnds(sid) \/ EmptyFlushCycle(sid)) => NoOldEntryLeft(sid)]_vars

\* The session has no pending entry for the request: the tab has no
\* recording session, or the session has no pending table, or the table has
\* no entry under the id.
NotPending(tabId, requestId) ==
  \A sid \in RecordingSessionOfTab(Cur, tabId) :
    MapHas(pendingNetworkRequests, sid)
      => ~MapHas(pendingNetworkRequests[sid], requestId)

\* C15: in every reachable state, a response, whatever its resource type,
\* status and headers, or a load-failure delivered for a requestId that has
\* no pending entry in the session leaves the whole state as it is: no event
\* is appended, no counter moves, the pending table is unchanged and no
\* flush starts.
UnknownRequestChangesNothing ==
  \A tabId \in Tabs : \A requestId \in RequestIds :
    NotPending(tabId, requestId)
      => /\ \A response \in Responses \cup OtherResponses :
              handleNetworkResponse(Cur, tabId, requestId, response.type,
                                    response.status, StatusTextOf(response.status),
                                    response.headers) = Cur
         /\ handleNetworkLoadingFailed(Cur, tabId, requestId, "net::ERR_FAILED") = Cur

\* A recording session that has buffered a network event and holds a pending
\* entry for r1 and none for r2: a response for r2 is one for an unknown
\* request.
UnknownRequestChangesNothingWitness ==
  \E sid \in DOMAIN sessions :
    /\ RecordingSessionOfTab(Cur, sessions[sid].tabId) = {sid}
    /\ MapHas(pendingNetworkRequests, sid)
    /\ DOMAIN pendingNetworkRequests[sid] = {"r1"}
    /\ networkEventBuffers[sid] # <<>>

\* Resource types and status codes the filter is tried with; 399 and 400
\* are the two sides of the status threshold.
ResourceKinds ==
  {"XHR", "Fetch", "WebSocket", "Document", "Image", "Stylesheet", "Script", "Other"}
StatusCodes == {200, 204, 304, 399, 400, 404, 500}

\* The condition of the claim.
Retained(kind, status) ==
  kind \in {"XHR", "Fetch", "WebSocket", "Document"} \/ status >= 400

\* The responses the handler is tried with in every state: each retained
\* type with a status below 400, and a type that is not retained with
\* statuses on both sides of 400.
FilterCases ==
  {<<"XHR", 200>>, <<"Fetch", 200>>, <<"WebSocket", 200>>, <<"Document", 200>>,
   <<"Image", 200>>, <<"Image", 399>>, <<"Image", 400>>, <<"Image", 404>>}

\* The pending entries of a recording session that hold the fields a
\* completed event is built from.
Correlatable(sid) ==
  IF MapHas(pendingNetworkRequests, sid) /\ sessions[sid].status = "recording"
       /\ MapHas(tabIdToSessionId, sessions[sid].tabId)
       /\ tabIdToSessionId[sessions[sid].tabId] = sid
  THEN {r \in DOMAIN pendingNetworkRequests[sid] :
          /\ pendingNetworkRequests[sid][r].requestId # ""
          /\ pendingNetworkRequests[sid][r].url # ""
          /\ pendingNetworkRequests[sid][r].method # ""}
  ELSE {}

\* The state `after` differs from the current one by one more network event
\* of the session, counted, for the request, with the status and text.
OneEventAdded(after, sid, requestId, status, statusText) ==
  \A log \in {after.accepted[sid]["network"]} :
     /\ Len(log) = Len(accepted[sid]["network"]) + 1
     /\ SubSeq(log, 1, Len(log) - 1) = accepted[sid]["network"]
     /\ log[Len(log)].requestId = requestId
     /\ log[Len(log)].status = status
     /\ log[Len(log)].statusText = statusText
     /\ after.sessions[sid].networkEventCount = sessions[sid].networkEventCount + 1
     /\ \/ after.networkEventBuffers[sid]
             = Append(networkEventBuffers[sid], log[Len(log)])
        \/ \E run \in after.flushRuns \ flushRuns :
             run.sid = sid
               /\ run.network = Append(networkEventBuffers[sid], log[Len(log)])

\* The state `after` has no more events, counts and flushes than the current
\* one.
NoEventAdded(after) ==
  /\ after.accepted = accepted
  /\ after.sessions = sessions
  /\ after.networkEventBuffers = networkEventBuffers
  /\ after.flushRuns = flushRuns

\* C16: the filter the handler applies keeps a response exactly when its
\* type is XHR, Fetch, WebSocket or Document or its status is at least 400;
\* and in every reachable state a response correlated with a pending request
\* appends the completed event, counted, if and only if that condition holds
\* (Image with 200 is dropped, Image with 404 is kept), and either way
\* removes the pending entry and leaves the other entries as they are.
ResponseFilter ==
  /\ \A kind \in ResourceKinds : \A status \in StatusCodes :
       shouldInclude(kind, status) <=> Retained(kind, status)
  /\ \A sid \in DOMAIN sessions : \A requestId \in Correlatable(sid) :
       \A case \in FilterCases :
         \A after \in {handleNetworkResponse(Cur, sessions[sid].tabId, requestId,
                                             case[1], case[2], StatusTextOf(case[2]),
                                             ResponseHeaders)} :
           /\ Retained(case[1], case[2])
                => OneEventAdded(after, sid, requestId, case[2], StatusTextOf(case[2]))
           /\ ~Retained(case[1], case[2]) => NoEventAdded(after)
           /\ DOMAIN after.pendingNetworkRequests[sid]
                = DOMAIN pendingNetworkRequests[sid] \ {requestId}
           /\ \A r \in DOMAIN after.pendingNetworkRequests[sid] :
                after.pendingNetworkRequests[sid][r] = pendingNetworkRequests[sid][r]

\* An Image response with status 404 (the response that carries
\* x-auth-token) was retained, and its request is no longer pending.
ResponseFilterWitness ==
  \E sid \in DOMAIN sessions :
    /\ MapHas(pendingNetworkRequests, sid)
    /\ \E i \in 1..Len(accepted[sid]["network"]) :
         LET e == accepted[sid]["network"][i]
         IN /\ e.status = 404
            /\ "responseHeaders" \in DOMAIN e
            /\ xAuthToken \in DOMAIN e.responseHeaders
            /\ ~MapHas(pendingNetworkRequests[sid], e.requestId)

\* The network events accepted for a session so far; none before it exists.
NetworkLog(log, sid) == IF MapHas(log, sid) THEN log[sid]["network"] ELSE <<>>

\* A step that accepts a network event of the session accepts one, for a
\* request that is pending before the step and is no longer pending after.
EventConsumesPendingEntry(sid) ==
  LET old == NetworkLog(accepted, sid)
      new == NetworkLog(accepted', sid)
  IN Len(new) > Len(old)
       => /\ Len(new) = Len(old) + 1
          /\ MapHas(pendingNetworkRequests, sid)
          /\ MapHas(pendingNetworkRequests[sid], new[Len(new)].requestId)
          /\ MapHas(pendingNetworkRequests', sid)
               => ~MapHas(pendingNetworkRequests'[sid], new[Len(new)].requestId)

\* Whatever response or load-failure is correlated with a pending entry of a
\* recording session, the entry is gone when the handler returns.
CorrelationRemovesEntry ==
  \A sid \in DOMAIN pendingNetworkRequests :
    RecordingSessionOfTab(Cur, sessions[sid].tabId) = {sid}
      => \A requestId \in DOMAIN pendingNetworkRequests[sid] :
           /\ \A response \in Responses \cup OtherResponses :
                ~MapHas(handleNetworkResponse(Cur, sessions[sid].tabId, requestId,
                                              response.type, response.status,
                                              StatusTextOf(response.status),
                                              response.headers)
                          .pendingNetworkRequests[sid],
                        requestId)
           /\ ~MapHas(handleNetworkLoadingFailed(Cur, sessions[sid].tabId, requestId,
                                                 "net::ERR_FAILED")
                        .pendingNetworkRequests[sid],
                      requestId)

\* C17: every network event that is accepted uses up a pending entry, the
\* record of one request-sent: the step that accepts it accepts one event,
\* its request is pending before and not after; and a response or
\* load-failure correlated with a pending entry removes the entry whether the
\* event is retained, filtered out or cannot be built.  With no entry there
\* is no event (C15), so a request-sent yields at most one event.
OneEventPerRequestSent ==
  /\ []CorrelationRemovesEntry
  /\ [][\A sid \in DOMAIN sessions' : EventConsumesPendingEntry(sid)]_vars

\* Request r1 was sent, answered, sent again and answered again: two events,
\* one for each request-sent, and r1 is not pending.
OneEventPerRequestSentWitness ==
  \E sid \in DOMAIN pendingNetworkRequests :
    /\ Len(accepted[sid]["network"]) = 2
    /\ \A i \in 1..2 : accepted[sid]["network"][i].requestId = "r1"
    /\ ~MapHas(pendingNetworkRequests[sid], "r1")

\* The request-sent payloads of the model.
AllRequests == Requests \cup OtherRequests \cup LaterRequests

\* handleNetworkRequestWillBeSent with the fields of a payload.
Sent(st, tabId, request) ==
  handleNetworkRequestWillBeSent(st, tabId, request.requestId, request.url,
                                 request.headers, request.wallTime)

\* C18: in every reachable state of a recording session, delivering
\* request-sent twice under one requestId, with any two payloads, leaves one
\* entry under the id, holding the url, wall time and header names of the
\* second delivery; the other entries and the rest of the state are as
\* before.
DuplicateRequestOverwrites ==
  \A sid \in DOMAIN pendingNetworkRequests :
    RecordingSessionOfTab(Cur, sessions[sid].tabId) = {sid}
      => \A first, second \in AllRequests :
           first.requestId = second.requestId
             => \A after \in {Sent(Sent(Cur, sessions[sid].tabId, first),
                                   sessions[sid].tabId, second)} :
                  LET table == after.pendingNetworkRequests[sid]
                      id == second.requestId
                  IN /\ DOMAIN table = DOMAIN pendingNetworkRequests[sid] \cup {id}
                     /\ table[id].requestId = id
                     /\ table[id].url = second.url
                     /\ table[id].wallTime = second.wallTime
                     /\ DOMAIN table[id].headers = DOMAIN second.headers
                     /\ \A r \in DOMAIN table \ {id} :
                          table[r] = pendingNetworkRequests[sid][r]
                     /\ [after EXCEPT !.pendingNetworkRequests = pendingNetworkRequests]
                          = Cur

\* The id r1 recurred: one r1 request (wall time 1.0500 s) was answered, and
\* the entry now pending under r1 is the one of a later delivery with other
\* fields (wall time 1.0495 s).
DuplicateRequestOverwritesWitness ==
  \E sid \in DOMAIN pendingNetworkRequests :
    /\ MapHas(pendingNetworkRequests[sid], "r1")
    /\ pendingNetworkRequests[sid]["r1"].wallTime = 10495
    /\ \E i \in 1..Len(accepted[sid]["network"]) :
         /\ accepted[sid]["network"][i].requestId = "r1"
         /\ accepted[sid]["network"][i].wallTime = 10500

\* params.errorText of a Network.loadingFailed.
ErrorTexts == {"net::ERR_FAILED", "net::ERR_ABORTED"}

\* The pending entries of a session, if the tab's CDP events reach it (it is
\* recording and the tab is indexed to it).
PendingOfRecording(sid) ==
  IF MapHas(pendingNetworkRequests, sid)
       /\ RecordingSessionOfTab(Cur, sessions[sid].tabId) = {sid}
  THEN DOMAIN pendingNetworkRequests[sid]
  ELSE {}

\* A load-failure with the error text for the request appends one counted
\* event with status 0 and that text and removes the entry.
FailureYieldsEvent(sid, requestId, errorText) ==
  \A after \in {handleNetworkLoadingFailed(Cur, sessions[sid].tabId, requestId,
                                           errorText)} :
    /\ OneEventAdded(after, sid, requestId, 0, errorText)
    /\ DOMAIN after.pendingNetworkRequests[sid]
         = DOMAIN pendingNetworkRequests[sid] \ {requestId}

\* C19 as stated: in every reachable state, a load-failure for any pending
\* request of a recording session appends a counted network event with
\* status 0 and the error text as statusText, and removes the pending entry.
LoadFailureAlwaysYieldsEvent ==
  \A sid \in DOMAIN sessions : \A requestId \in PendingOfRecording(sid) :
    \A errorText \in ErrorTexts : FailureYieldsEvent(sid, requestId, errorText)

\* C19 as amended: a load-failure for a pending request of a recording
\* session whose entry holds requestId, url and method appends a counted
\* network event with status 0 and the error text as statusText, whatever the
\* resource type, and removes the entry; for an entry that lacks one of the
\* three fields the entry is removed and no event is appended or counted.
LoadFailureYieldsEvent ==
  \A sid \in DOMAIN sessions : \A requestId \in PendingOfRecording(sid) :
    \A errorText \in ErrorTexts :
      IF requestId \in Correlatable(sid)
      THEN FailureYieldsEvent(sid, requestId, errorText)
      ELSE \A after \in {handleNetworkLoadingFailed(Cur, sessions[sid].tabId,
                                                    requestId, errorText)} :
             /\ NoEventAdded(after)
             /\ DOMAIN after.pendingNetworkRequests[sid]
                  = DOMAIN pendingNetworkRequests[sid] \ {requestId}

\* A failed request was recorded: an event with status 0 and the error text,
\* counted, whose request is no longer pending.
LoadFailureYieldsEventWitness ==
  \E sid \in DOMAIN pendingNetworkRequests :
    \E i \in 1..Len(accepted[sid]["network"]) :
      LET e == accepted[sid]["network"][i]
      IN /\ e.status = 0
         /\ e.statusText = "net::ERR_FAILED"
         /\ sessions[sid].networkEventCount >= 1
         /\ ~MapHas(pendingNetworkRequests[sid], e.requestId)

\* The header names of the payloads that are in the sensitive set when
\* compared without regard to case, written out name by name.
SensitiveNames ==
  {Authorization, COOKIE, XApiKey, SetCookie, xAuthToken, ProxyAuthorization}

\* What the claim requires of a stored header map, given the map received.
Redacted(headers) ==
  [name \in DOMAIN headers |->
     IF name \in SensitiveNames THEN "[REDACTED]" ELSE headers[name]]

\* The header map with the value of every sensitive header replaced.
WithSecret(headers, secret) ==
  [name \in DOMAIN headers |->
     IF name \in SensitiveNames THEN secret ELSE headers[name]]

\* Every header map of the event has each sensitive header redacted.
EventIsRedacted(e) ==
  /\ \A name \in DOMAIN e.headers \cap SensitiveNames : e.headers[name] = "[REDACTED]"
  /\ "responseHeaders" \in DOMAIN e
       => \A name \in DOMAIN e.responseHeaders \cap SensitiveNames :
            e.responseHeaders[name] = "[REDACTED]"

\* The network events held anywhere: in a buffer, in a flush in flight, in
\* a stored batch, and the pending entries they are built from.
NetworkEventsHeld ==
  UNION {Range(networkEventBuffers[sid]) : sid \in DOMAIN networkEventBuffers}
    \cup UNION {Range(run.network) : run \in flushRuns}
    \cup UNION {Range(getEvents(idb, sid, "network")) : sid \in DOMAIN sessions}
    \cup UNION {Range(pendingNetworkRequests[sid]) : sid \in DOMAIN pendingNetworkRequests}

\* A request-sent stores the header map redacted as the claim requires, and
\* stores the same entry whatever the values of the sensitive headers are.
RequestHeadersRedacted(sid) ==
  \A request \in Requests \cup OtherRequests :
    \A after \in {Sent(Cur, sessions[sid].tabId, request)} :
      /\ after.pendingNetworkRequests[sid][request.requestId].headers
           = Redacted(request.headers)
      /\ after = Sent(Cur, sessions[sid].tabId,
                      [request EXCEPT !.headers = WithSecret(@, "other")])

\* A retained response stores its header map redacted as the claim requires
\* beside the request's, and the resulting state, with the buffer and the
\* flush a full buffer starts, is the same whatever the values of the
\* sensitive headers are.
ResponseHeadersRedacted(sid) ==
  \A requestId \in Correlatable(sid) :
    \A headers \in {ResponseHeaders, OtherResponseHeaders} :
      \A after \in {handleNetworkResponse(Cur, sessions[sid].tabId, requestId, "XHR",
                                          200, "OK", headers)} :
        LET log == after.accepted[sid]["network"]
        IN /\ log[Len(log)].responseHeaders = Redacted(headers)
           /\ log[Len(log)].headers = pendingNetworkRequests[sid][requestId].headers
           /\ after = handleNetworkResponse(Cur, sessions[sid].tabId, requestId, "XHR",
                                            200, "OK", WithSecret(headers, "other"))

\* C20: in every reachable state, every network event in a buffer, in a
\* flush in flight or in a stored batch, and every pending entry, has the
\* value [REDACTED] for each request and response header whose name is in
\* the sensitive set without regard to case; a request-sent and a response
\* store every other header with its name and value; and the state they
\* produce, hence every batch written from it, does not depend on the values
\* of the sensitive headers.
SensitiveHeadersRedacted ==
  /\ \A e \in NetworkEventsHeld : EventIsRedacted(e)
  /\ \A sid \in DOMAIN pendingNetworkRequests :
       RecordingSessionOfTab(Cur, sessions[sid].tabId) = {sid}
         => RequestHeadersRedacted(sid) /\ ResponseHeadersRedacted(sid)

\* A stored network batch holds an event whose Authorization and Set-Cookie
\* headers are redacted and whose Accept header has its value.
SensitiveHeadersRedactedWitness ==
  \E sid \in DOMAIN sessions :
    \E e \in Range(getEvents(idb, sid, "network")) :
      /\ "responseHeaders" \in DOMAIN e
      /\ DOMAIN e.headers = {Authorization, Accept}
      /\ e.headers[Authorization] = "[REDACTED]"
      /\ e.headers[Accept] = "application/json"
      /\ SetCookie \in DOMAIN e.responseHeaders
      /\ e.responseHeaders[SetCookie] = "[REDACTED]"

\* Every event accepted for the session is in a stored batch of its channel.
AllPersisted(sid) ==
  \A ch \in Channels : \A e \in Range(accepted[sid][ch]) :
    Count(getEvents(idb, sid, ch), e) = Count(accepted[sid][ch], e)

\* The session holds none of the telemetry state handleMediaReady creates.
TornDown(sid) ==
  /\ \A ch \in Channels : ~MapHas(ChannelBuffers(ch), sid)
  /\ ~MapHas(pendingNetworkRequests, sid)

\* C21: once the handling of a capture error of stage 'recording' or
\* 'stopping' has ended, the session is in error with recoverable = true,
\* its flush timer is disarmed, its buffers are torn down, and (no write
\* having failed) every event it accepted is in a persisted batch; this for
\* every session, one whose debugger was detached externally included.
MidSessionErrorFlushesAndTearsDown ==
  \A sid \in DOMAIN sessions :
    (/\ sessions[sid].status = "error"
     /\ sessions[sid].errorRecoverable = <<TRUE>>
     /\ ~MapHas(errorRuns, sid))
      => /\ sid \notin flushTimers
         /\ TornDown(sid)
         /\ sid \notin failedWrites => AllPersisted(sid)

\* C22: once a capture error of stage 'init' has been handled, the session
\* is in error with recoverable = false and holds nothing the start sequence
\* created: its debugger is detached, its offscreen document is closed and
\* the reverse index does not map its tab to it.
InitErrorReleasesEverything ==
  \A sid \in DOMAIN sessions :
    (sessions[sid].status = "error" /\ sessions[sid].errorRecoverable = <<FALSE>>)
      => /\ ~sessions[sid].debuggerAttached
         /\ ~sessions[sid].offscreenDocumentActive
         /\ ~(/\ MapHas(tabIdToSessionId, sessions[sid].tabId)
              /\ tabIdToSessionId[sessions[sid].tabId] = sid)

\* The messages of a type among those the step sends, in order.
SentNow(type) == SelectSeq(sent', LAMBDA m : m.message.type = type)

\* The step answers a request of the kind, with the outcome.
Responds(request, success) ==
  \E i \in DOMAIN sent' :
    /\ sent'[i].message.type = "response"
    /\ sent'[i].message.request = request
    /\ sent'[i].message.success = success

\* The start sequence of the session, already registered, ends in failure.
StartFails(sid) ==
  sid \in startRuns /\ sid \notin startRuns' /\ Responds("START_RECORDING", FALSE)

\* A handleMediaError for the session returns: one that was suspended in its
\* cleanup, or one that ran to its end in this step.
MediaErrorReturns(sid) ==
  \/ MapHas(errorRuns, sid) /\ ~MapHas(errorRuns', sid)
  \/ /\ DOMAIN errorRuns \subseteq DOMAIN errorRuns'
     /\ \E success \in BOOLEAN : Responds("MEDIA_ERROR", success)
     /\ sessions'[sid].lastError # <<>>
     /\ \A other \in DOMAIN sessions \ {sid} : sessions'[other] = sessions[other]

\* The step attempts one RECORDING_ERROR, with the session's tab, error text
\* and recoverable flag.
OneErrorBroadcast(sid) ==
  /\ Len(SentNow("RECORDING_ERROR")) = 1
  /\ SentNow("RECORDING_ERROR")[1].to = "popup"
  /\ SentNow("RECORDING_ERROR")[1].message
       = [type |-> "RECORDING_ERROR",
          tabId |-> sessions'[sid].tabId,
          error |-> sessions'[sid].lastError[1],
          recoverable |-> sessions'[sid].errorRecoverable[1]]

\* C23: a step in which the start sequence of a registered session fails, or
\* in which the handling of a capture error of any stage returns, leaves the
\* session in status error and attempts one error broadcast with the tab,
\* the error text and the recoverable flag; and a session that has had a
\* capture error is in status error in every state.
SessionErrorsAreBroadcast ==
  [][\A sid \in DOMAIN sessions :
       /\ (StartFails(sid) \/ MediaErrorReturns(sid))
            => /\ sessions'[sid].status = "error"
               /\ sessions'[sid].lastError # <<>>
               /\ OneErrorBroadcast(sid)
       /\ sessions'[sid].lastError # <<>> => sessions'[sid].status = "error"]_vars

\* The RECORDING_ERROR messages among those a handler has sent.
ErrorBroadcastsOf(st) == SelectSeq(st.sent, LAMBDA m : m.message.type = "RECORDING_ERROR")

\* A capture error of the stage, handled in this state: the session's flag
\* is false for 'init' and true otherwise; a handler that runs to its end
\* sends one broadcast with that value, one that is suspended in its cleanup
\* has sent none yet.
FlagFollowsStage(sid, stage) ==
  \A error \in MediaErrors, closeOk \in BOOLEAN :
    LET after == handleMediaError(Cur, sid, stage, error, closeOk)
    IN /\ after.sessions[sid].errorRecoverable = <<stage # "init">>
       /\ IF MapHas(after.errorRuns, sid)
          THEN ErrorBroadcastsOf(after) = <<>>
          ELSE /\ Len(ErrorBroadcastsOf(after)) = 1
               /\ ErrorBroadcastsOf(after)[1].message.recoverable = (stage # "init")

\* The handler of a capture error that was suspended in its cleanup returns
\* in this step: it sends one broadcast, with the value for its stage, which
\* is the session's flag.
SuspendedBroadcastFollowsStage(sid) ==
  (MapHas(errorRuns, sid) /\ ~MapHas(errorRuns', sid))
    => /\ Len(SentNow("RECORDING_ERROR")) = 1
       /\ SentNow("RECORDING_ERROR")[1].message.recoverable
            = (errorRuns[sid].stage # "init")
       /\ sessions'[sid].errorRecoverable = <<errorRuns[sid].stage # "init">>

World(st, listening) == [st EXCEPT !.receivers = listening]

\* What a handler leaves behind apart from who listened: the state, and the
\* messages and responses it sent without what became of them.
Outcome(st) ==
  [st EXCEPT !.receivers = {},
             !.sent = [i \in DOMAIN st.sent |-> [st.sent[i] EXCEPT !.delivered = TRUE]]]

\* The responses among the messages a handler has sent.
ResponsesOf(st) == SelectSeq(st.sent, LAMBDA m : m.message.type = "response")

\* Every response the handler gave is success.
Succeeds(st) ==
  \A i \in DOMAIN ResponsesOf(st) : ResponsesOf(st)[i].message.success

\* The handlers that notify the popup or the content script, applied in the
\* states in which they run, with the given receivers listening.
ReadyIn(listening, sid) == handleMediaReady(World(Cur, listening), sid)
StopIn(listening, sid, sendOk) == handleStopRecording(World(Cur, listening), sid, sendOk)
SerializedIn(listening, sid) == SerializeStateSent(World(Cur, listening), sid)
StoppedDetachedIn(listening, sid, ok) == StoppedDetachReturned(World(Cur, listening), sid, ok)
WrittenIn(listening, run, ok) == WriteReturned(World(Cur, listening), run, ok)
ErrorIn(listening, sid, stage, closeOk) ==
  handleMediaError(World(Cur, listening), sid, stage, "NotAllowedError", closeOk)
ErrorDetachedIn(listening, sid, ok) == ErrorDetachReturned(World(Cur, listening), sid, ok)

\* C25: whoever listens, each handler that notifies the popup or the content
\* script leaves the same state, attempts the same messages and gives the
\* same response as when both listen: the capture-ready, capture-finished
\* and capture-error handlers respond success (the capture-finished handler
\* unless its final flush failed), and the stop handler responds with the
\* outcome of the stop-capture message alone.
FailedNotificationsAreSwallowed ==
  \A listening \in SUBSET Receivers : \A sid \in DOMAIN sessions :
    /\ capture[sid] = "init"
         => /\ Outcome(ReadyIn(listening, sid)) = Outcome(ReadyIn(Receivers, sid))
            /\ Succeeds(ReadyIn(listening, sid))
    /\ sid \in FindRecording(Cur, sessions[sid].tabId)
         => \A sendOk \in BOOLEAN :
              /\ Outcome(StopIn(listening, sid, sendOk)) = Outcome(StopIn(Receivers, sid, sendOk))
              /\ Succeeds(StopIn(listening, sid, sendOk)) <=> sendOk
    /\ (MapHas(stoppedRuns, sid) /\ stoppedRuns[sid] = "serialize")
         => /\ Outcome(SerializedIn(listening, sid)) = Outcome(SerializedIn(Receivers, sid))
            /\ Succeeds(SerializedIn(listening, sid))
    /\ (MapHas(stoppedRuns, sid) /\ stoppedRuns[sid] = "detach")
         => \A ok \in BOOLEAN :
              /\ Outcome(StoppedDetachedIn(listening, sid, ok))
                   = Outcome(StoppedDetachedIn(Receivers, sid, ok))
              /\ Succeeds(StoppedDetachedIn(listening, sid, ok))
              /\ ResponsesOf(StoppedDetachedIn(listening, sid, ok)) # <<>>
    /\ \A run \in RunsOf(flushRuns, sid) : \A ok \in BOOLEAN :
         /\ Outcome(WrittenIn(listening, run, ok)) = Outcome(WrittenIn(Receivers, run, ok))
         /\ ok => Succeeds(WrittenIn(listening, run, ok))
    /\ ~MapHas(errorRuns, sid)
         => \A stage \in Stages : \A closeOk \in BOOLEAN :
              StageOfPhase(capture[sid], stage)
                => /\ Outcome(ErrorIn(listening, sid, stage, closeOk))
                        = Outcome(ErrorIn(Receivers, sid, stage, closeOk))
                   /\ Succeeds(ErrorIn(listening, sid, stage, closeOk))
    /\ (MapHas(errorRuns, sid) /\ errorRuns[sid].pc = "detach")
         => \A ok \in BOOLEAN :
              /\ Outcome(ErrorDetachedIn(listening, sid, ok))
                   = Outcome(ErrorDetachedIn(Receivers, sid, ok))
              /\ Succeeds(ErrorDetachedIn(listening, sid, ok))
              /\ ResponsesOf(ErrorDetachedIn(listening, sid, ok)) # <<>>

\* A session has just completed, torn down, and its handler has responded
\* success, though neither the status update to the popup was delivered nor
\* anybody listens.
FailedNotificationsAreSwallowedWitness ==
  \E sid \in DOMAIN sessions :
    /\ sessions[sid].status = "completed"
    /\ sessions[sid].consoleEventCount > 0
    /\ ~MapHas(consoleEventBuffers, sid)
    /\ receivers = {}
    /\ \E i \in DOMAIN sent :
         /\ sent[i].message.type = "SESSION_STATUS_UPDATE"
         /\ ~sent[i].delivered
    /\ \E i \in DOMAIN sent :
         /\ sent[i].message.type = "response"
         /\ sent[i].message.request = "MEDIA_STOPPED"
         /\ sent[i].message.success

\* The events of the channel that the flush in flight for the session holds
\* and has not stored.
InFlight(sid, ch) ==
  IF RunsOf(flushRuns, sid) = {} THEN <<>>
  ELSE Unwritten(CHOOSE run \in RunsOf(flushRuns, sid) : TRUE, ch)

\* The unflushed buffer; a session without buffers has nothing unflushed.
Unflushed(sid, ch) ==
  IF MapHas(ChannelBuffers(ch), sid) THEN ChannelBuffers(ch)[sid] ELSE <<>>

\* The events of the session and channel in reading order: the batches by
\* index, what is being written, what is buffered.
EventsInOrder(sid, ch) ==
  getEvents(idb, sid, ch) \o InFlight(sid, ch) \o Unflushed(sid, ch)

\* C26: in every state, for every session and channel, the persisted batches
\* concatenated by increasing index, followed by the events of the flush in
\* flight and by the unflushed buffer, are the accepted events in the order
\* of their acceptance, and the indices of the batches written, in the order
\* of the writes, increase strictly.
ChannelOrderPreserved ==
  \A sid \in DOMAIN sessions : \A ch \in Channels :
    /\ EventsInOrder(sid, ch) = accepted[sid][ch]
    /\ \A i \in DOMAIN writeLog[sid][ch] : \A j \in DOMAIN writeLog[sid][ch] :
         i < j => writeLog[sid][ch][i] < writeLog[sid][ch][j]

\* The step appends an event to the channel buffer of the session and the
\* buffer reaches the size threshold.
AppendFillsBuffer(sid, ch) ==
  /\ Len(accepted'[sid][ch]) > Len(accepted[sid][ch])
  /\ BufferFull(BufferedAtStart(sid, ch))

\* The number of handleDOMEventCaptured runs suspended for the session.
Suspended(runs, sid) == IF MapHas(runs, sid) THEN runs[sid] ELSE 0

\* C27: a step that appends an event and brings the channel buffer to the
\* threshold or beyond leaves a flush of the session in flight and leaves no
\* appending handler suspended: the handler has returned before any
\* persistence write returns; and no appending handler ever answers failure
\* for an event it has appended, whatever becomes of the flush.
AppendNeverWaitsForFlush ==
  [][\A sid \in DOMAIN sessions :
       /\ \A ch \in Channels :
            AppendFillsBuffer(sid, ch)
              => /\ RunsOf(flushRuns', sid) # {}
                 /\ Suspended(domEventRuns', sid) = Suspended(domEventRuns, sid)
       /\ (Suspended(domEventRuns, sid) > 0 /\ Suspended(domEventRuns', sid) = 0)
            => ~Responds("DOM_EVENT_CAPTURED", FALSE)]_vars

\* C28: in every state the session has a flush timer armed exactly if its
\* status is recording, and no interval of the session runs beside the
\* registered one.
TimerArmedIffRecording ==
  \A sid \in DOMAIN sessions :
    /\ sid \in flushTimers <=> sessions[sid].status = "recording"
    /\ sid \notin orphanTimers

\* The handler answers the request with success.
Answers(st, request) ==
  \E i \in DOMAIN st.sent :
    /\ st.sent[i].message.type = "response"
    /\ st.sent[i].message.request = request
    /\ st.sent[i].message.success

\* The attach fails in a start sequence: the start request succeeds all the
\* same, with the session registered, idle and the capture asked for.
StartSurvivesAttachFailure(sid) ==
  LET after == StartAttachReturned(Cur, sid, FALSE, TRUE)
  IN /\ Answers(after, "START_RECORDING")
     /\ Reached(after, "offscreen", "INIT_MEDIA_CAPTURE")
     /\ after.sessions[sid] = sessions[sid]
     /\ ~after.sessions[sid].debuggerAttached

\* An external detach of the debugger of a recording session changes the
\* debuggerAttached flag of the session and nothing else.
DetachLeavesRecording(sid) ==
  handleCDPDetach(Cur, sessions[sid].tabId)
    = [Cur EXCEPT !.sessions[sid].debuggerAttached = FALSE]

\* The capture-finished handler of a session without debugger goes on to
\* completed: from the serialize send either at once or by way of its final
\* flush, and from the final flush when the last write returns.
StopSequenceCompletes(sid) ==
  /\ (MapHas(stoppedRuns, sid) /\ stoppedRuns[sid] = "serialize")
       => LET after == SerializeStateSent(Cur, sid)
          IN \/ after.sessions[sid].status = "completed" /\ Answers(after, "MEDIA_STOPPED")
             \/ /\ MapHas(after.stoppedRuns, sid)
                /\ after.stoppedRuns[sid] = "flush"
                /\ RunsOf(after.flushRuns, sid) # {}
  /\ (MapHas(stoppedRuns, sid) /\ stoppedRuns[sid] = "flush")
       => \A run \in RunsOf(flushRuns, sid) :
            LET after == WriteReturned(Cur, run, TRUE)
            IN \/ after.sessions[sid].status = "completed" /\ Answers(after, "MEDIA_STOPPED")
               \/ RunsOf(after.flushRuns, sid) # {} /\ after.stoppedRuns = stoppedRuns

\* C29: in every reachable state, a failed attach leaves the start request
\* successful and the session idle, and capture-ready then makes it
\* recording; an external detach leaves a recording session recording; a
\* recording session without debugger is found by a stop request, which
\* makes it stopping and succeeds, and its capture-finished handler takes it
\* to completed.
DebuggerFailureDoesNotAbort ==
  \A sid \in DOMAIN sessions :
    /\ sid \in startRuns => StartSurvivesAttachFailure(sid)
    /\ (capture[sid] = "init" /\ ~sessions[sid].debuggerAttached)
         => /\ handleMediaReady(Cur, sid).sessions[sid].status = "recording"
            /\ Answers(handleMediaReady(Cur, sid), "MEDIA_READY")
    /\ (sessions[sid].status = "recording"
        /\ RecordingSessionOfTab(Cur, sessions[sid].tabId) = {sid})
         => DetachLeavesRecording(sid)
    /\ (sessions[sid].status = "recording" /\ ~sessions[sid].debuggerAttached)
         => /\ sid \in FindRecording(Cur, sessions[sid].tabId)
            /\ handleStopRecording(Cur, sid, TRUE).sessions[sid].status = "stopping"
            /\ Answers(handleStopRecording(Cur, sid, TRUE), "STOP_RECORDING")
    /\ ~sessions[sid].debuggerAttached => StopSequenceCompletes(sid)

\* A session whose debugger was detached while it was recording (it has its
\* buffers and no debugger) has been stopped, and its capture-finished
\* handler is in its final flush.
DebuggerFailureDoesNotAbortWitness ==
  \E sid \in DOMAIN sessions :
    /\ sessions[sid].status = "stopping"
    /\ ~sessions[sid].debuggerAttached
    /\ MapHas(networkEventBuffers, sid)
    /\ MapHas(stoppedRuns, sid)
    /\ stoppedRuns[sid] = "flush"

\* C30: in every step, every session keeps its sessionStartTime, and a
\* session whose sessionStopTime is set keeps its sessionStopTime.
SessionTimesImmutable ==
  [][\A sid \in DOMAIN sessions :
       /\ sid \in DOMAIN sessions'
       /\ sessions'[sid].sessionStartTime = sessions[sid].sessionStartTime
       /\ sessions[sid].sessionStopTime # <<>>
            => sessions'[sid].sessionStopTime = sessions[sid].sessionStopTime]_vars

\* The events of a session and channel wherever they are kept: appended,
\* in the buffer, in the persisted batches.
EventsKept(sid, ch) ==
  Range(accepted[sid][ch])
    \cup (IF MapHas(Buffers(Cur, ch), sid) THEN Range(Buffers(Cur, ch)[sid]) ELSE {})
    \cup Range(getEvents(idb, sid, ch))

\* The screenshot metadata stored for a session.
ScreenshotMetadataOf(sid) ==
  {idb[k] : k \in {x \in DOMAIN idb : x[1] = sid /\ x[2] = "screenshot:metadata"}}

\* The response for a pending request makes an event with the offset the
\* pending entry holds.
OffsetCarriedOver(sid) ==
  (sessions[sid].status = "recording" /\ MapHas(pendingNetworkRequests, sid))
    => \A r \in DOMAIN pendingNetworkRequests[sid] :
         LET after == handleNetworkResponse(Cur, sessions[sid].tabId, r, "XHR", 200,
                                            "OK", NoHeaders)
             appended == after.accepted[sid]["network"]
         IN /\ Len(appended) = Len(accepted[sid]["network"]) + 1
            /\ appended[Len(appended)].videoTimestamp
                 = pendingNetworkRequests[sid][r].videoTimestamp

Deleted(sid) ==
  /\ TornDown(sid)
  /\ \A ch \in Channels : ~MapHas(BatchIndices(Cur, ch), sid)
  /\ \A tabId \in DOMAIN tabIdToSessionId : tabIdToSessionId[tabId] # sid

\* Where a suspended capture-finished handler stands: the timer is disarmed
\* from its first step on; while it awaits the final flush a flush of the
\* session is in flight; while it awaits the detach none is; and the
\* session is not completed before the handler has ended.
StoppedHandlerInOrder(sid) ==
  /\ sid \notin flushTimers
  /\ sessions[sid].status # "completed"
  /\ stoppedRuns[sid] = "flush" => sid \in flushInProgress
  /\ stoppedRuns[sid] = "detach" => sid \notin flushInProgress

\* A step writes no batch for the session.
NoBatchWritten(sid) ==
  /\ writeLog'[sid] = writeLog[sid]
  /\ \A ch \in Channels : getEvents(idb', sid, ch) = getEvents(idb, sid, ch)

\* C32: the capture-finished handler disarms the timer, then awaits the
\* final flush, then detaches and deletes the telemetry state, and only
\* then is the session completed; and no step writes a batch for a session
\* whose buffers are deleted.
StopStepsInOrder ==
  /\ [](\A sid \in DOMAIN sessions :
          /\ MapHas(stoppedRuns, sid) => StoppedHandlerInOrder(sid)
          /\ sessions[sid].status = "completed"
               => Deleted(sid) /\ sid \notin flushTimers /\ sid \notin flushInProgress)
  /\ [][\A sid \in DOMAIN sessions : TornDown(sid) => NoBatchWritten(sid)]_vars

\* C33: in every reachable state, the reverse index maps the tab of every
\* recording session to that session.
RecordingSessionIsIndexed ==
  \A sid \in DOMAIN sessions :
    sessions[sid].status = "recording"
      => /\ MapHas(tabIdToSessionId, sessions[sid].tabId)
         /\ tabIdToSessionId[sessions[sid].tabId] = sid

\* The buffer of a session and channel, empty when the session has none.
BufferOf(bufs, sid) == IF MapHas(bufs, sid) THEN bufs[sid] ELSE <<>>

\* C34 as stated: in every reachable state, a session with no flush in
\* flight has fewer than BUFFER_FLUSH_SIZE events in each channel buffer.
BuffersBelowThreshold ==
  \A sid \in DOMAIN sessions :
    sid \notin flushInProgress
      => \A ch \in Channels : Len(BufferOf(ChannelBuffers(ch), sid)) < BUFFER_FLUSH_SIZE

\* C34 amended: a channel buffer reaches or stays at BUFFER_FLUSH_SIZE events
\* or more by an append only while a flush of the session is in flight: no
\* step changes a buffer and leaves it with that many events and no flush
\* in flight.
FullBufferOnlyBehindFlush ==
  [][\A sid \in DOMAIN sessions' : \A ch \in Channels :
       (/\ MapHas(ChannelBuffers(ch)', sid)
        /\ Len(ChannelBuffers(ch)'[sid]) >= BUFFER_FLUSH_SIZE
        /\ sid \notin flushInProgress')
         => /\ MapHas(ChannelBuffers(ch), sid)
            /\ ChannelBuffers(ch)'[sid] = ChannelBuffers(ch)[sid]]_vars

\* An append has filled the console buffer of a session behind a flush in
\* flight.
FullBufferOnlyBehindFlushWitness ==
  \E sid \in DOMAIN sessions :
    /\ sid \in flushInProgress
    /\ MapHas(consoleEventBuffers, sid)
    /\ Len(consoleEventBuffers[sid]) >= BUFFER_FLUSH_SIZE

\* What a session holds of telemetry in a state: its buffers, its pending
\* table and its three counters.
TelemetryOf(st, sid) ==
  [buffers |-> [ch \in Channels |-> IF MapHas(Buffers(st, ch), sid)
                                     THEN <<Buffers(st, ch)[sid]>> ELSE <<>>],
   pending |-> IF MapHas(st.pendingNetworkRequests, sid)
               THEN <<st.pendingNetworkRequests[sid]>> ELSE <<>>,
   counters |-> <<st.sessions[sid].networkEventCount, st.sessions[sid].consoleEventCount,
                  st.sessions[sid].domEventCount>>]

\* The states the six telemetry handlers lead to from the current one, for
\* every tab and payload, the DOM event being addressed to the session.
AfterTelemetryDelivery(sid) ==
  {handleNetworkRequestWillBeSent(Cur, tabId, request.requestId, request.url,
                                  request.headers, request.wallTime) :
     tabId \in Tabs, request \in Requests \cup OtherRequests}
  \cup {handleNetworkResponse(Cur, tabId, requestId, response.type, response.status,
                              StatusTextOf(response.status), response.headers) :
          tabId \in Tabs, requestId \in RequestIds, response \in Responses \cup OtherResponses}
  \cup {handleNetworkLoadingFailed(Cur, tabId, requestId, "net::ERR_FAILED") :
          tabId \in Tabs, requestId \in RequestIds}
  \cup {handleConsoleAPICalled(Cur, tabId, type) :
          tabId \in Tabs, type \in ConsoleTypes \cup OtherConsoleTypes}
  \cup {handleExceptionThrown(Cur, tabId) : tabId \in Tabs}
  \cup {handleDOMEventCaptured(Cur, sid, timestamp) : timestamp \in DomTimestamps}

\* C35: in every reachable state and for every session whose status is not
\* recording, each telemetry delivery (request-sent, response, load-failed,
\* console call, exception for any tab, DOM event for the session) leaves
\* the buffers, the pending table and the three counters of the session as
\* they are.
NotRecordingTakesNoTelemetry ==
  \A sid \in DOMAIN sessions :
    sessions[sid].status # "recording"
      => \A after \in AfterTelemetryDelivery(sid) :
           TelemetryOf(after, sid) = TelemetryOf(Cur, sid)

\* A session that is stopping is still indexed by its tab and holds its
\* buffers, a buffered event and a pending request.
NotRecordingTakesNoTelemetryWitness ==
  \E sid \in DOMAIN sessions :
    /\ sessions[sid].status = "stopping"
    /\ MapHas(tabIdToSessionId, sessions[sid].tabId)
    /\ tabIdToSessionId[sessions[sid].tabId] = sid
    /\ MapHas(consoleEventBuffers, sid)
    /\ consoleEventBuffers[sid] # <<>>
    /\ MapHas(pendingNetworkRequests, sid)
    /\ pendingNetworkRequests[sid] # EmptyMap

\* What the claim lists of a session: status, counters, buffers, pending
\* table, batch indices and timer.
IsolatedStateOf(st, sid) ==
  [status |-> st.sessions[sid].status,
   telemetry |-> TelemetryOf(st, sid),
   batchIndices |-> [ch \in Channels |-> IF MapHas(BatchIndices(st, ch), sid)
                                          THEN <<BatchIndices(st, ch)[sid]>> ELSE <<>>],
   timer |-> sid \in st.flushTimers]

\* The states the operations on session a lead to from the current one:
\* its appends, its flush and the return of a write of it (success or
\* failure), its stop request, and every step of its capture-finished and
\* capture-error handlers that is due.
AfterOperationOn(a) ==
  {handleConsoleAPICalled(Cur, sessions[a].tabId, type) : type \in ConsoleTypes}
  \cup {handleDOMEventCaptured(Cur, a, timestamp) : timestamp \in DomTimestamps}
  \cup {flushTelemetryBuffers(Cur, a)}
  \cup {WriteReturned(Cur, run, ok) : run \in RunsOf(flushRuns, a), ok \in BOOLEAN}
  \cup {handleStopRecording(Cur, a, sendOk) :
          sendOk \in {ok \in BOOLEAN : a \in FindRecording(Cur, sessions[a].tabId)}}
  \cup (IF MapHas(stoppedRuns, a)
        THEN CASE stoppedRuns[a] = "serialize" -> {SerializeStateSent(Cur, a)}
               [] stoppedRuns[a] = "detach" ->
                    {StoppedDetachReturned(Cur, a, ok) : ok \in BOOLEAN}
               [] OTHER -> {}
        ELSE {handleMediaStopped(Cur, a)})
  \cup (IF MapHas(errorRuns, a)
        THEN {ErrorDetachReturned(Cur, a, ok) :
                ok \in {x \in BOOLEAN : errorRuns[a].pc = "detach"}}
        ELSE {handleMediaError(Cur, a, stage, error, closeOk) :
                stage \in Stages, error \in MediaErrors, closeOk \in BOOLEAN})

\* A flush of session b starts whether or not a flush of another session is
\* in flight: with something buffered and no flush of its own in flight, its
\* buffers are taken and its first write is under way.
FlushNotHeldUp(b) ==
  (b \notin flushInProgress
   /\ \E ch \in Channels : BufferOf(ChannelBuffers(ch), b) # <<>>)
    => LET after == flushTelemetryBuffers(Cur, b)
       IN /\ RunsOf(after.flushRuns, b) # {}
          /\ \A ch \in Channels : BufferOf(Buffers(after, ch), b) = <<>>

\* C36: in every reachable state and for every two sessions a and b of
\* different tabs, no operation on a changes the status, counters, buffers,
\* pending table, batch indices or timer of b, and a flush of b starts
\* whatever flush of a is in flight.
SessionsAreIsolated ==
  \A a \in DOMAIN sessions, b \in DOMAIN sessions :
    sessions[a].tabId # sessions[b].tabId
      => /\ \A after \in AfterOperationOn(a) :
              IsolatedStateOf(after, b) = IsolatedStateOf(Cur, b)
         /\ FlushNotHeldUp(b)

\* Two sessions of different tabs, the write of a flush of one in flight
\* and an event in the buffer of the other.
SessionsAreIsolatedWitness ==
  \E a \in DOMAIN sessions, b \in DOMAIN sessions :
    /\ sessions[a].tabId # sessions[b].tabId
    /\ RunsOf(flushRuns, a) # {}
    /\ b \notin flushInProgress
    /\ BufferOf(domEventBuffers, b) # <<>>

\* C37: in every step in which the stop request is answered with failure,
\* every session keeps its status and its sessionStopTime.
FailedStopChangesNothing ==
  [][(\E i \in DOMAIN sent' :
        /\ sent'[i].message.type = "response"
        /\ sent'[i].message.request = "STOP_RECORDING"
        /\ ~sent'[i].message.success)
       => \A sid \in DOMAIN sessions :
            /\ sessions'[sid].status = sessions[sid].status
            /\ sessions'[sid].sessionStopTime = sessions[sid].sessionStopTime]_vars

\* C38: the capture-finished handler of a session ends only with the session
\* completed, its timer disarmed and its telemetry state torn down: in every
\* step in which a suspended capture-finished handler ends, whatever the
\* writes of its final flush returned, the session is left so.  (The handler
\* is the one place that completes a session, so one that ends otherwise
\* leaves a session that never completes.)
StoppedHandlerEndsCompleted ==
  [][\A sid \in DOMAIN stoppedRuns :
       ~MapHas(stoppedRuns', sid)
         => /\ sessions'[sid].status = "completed"
            /\ sid \notin flushTimers'
            /\ \A ch \in Channels : ~MapHas(ChannelBuffers(ch)', sid)
            /\ ~MapHas(pendingNetworkRequests', sid)]_vars

\* C39: in every reachable state, a DOM event delivered for a recording
\* session is appended to the DOM events of the session and counted in
\* domEventCount, whatever debuggerAttached is.
DomEventAlwaysRecorded ==
  \A sid \in DOMAIN sessions :
    sessions[sid].status = "recording"
      => \A timestamp \in DomTimestamps :
           LET after == handleDOMEventCaptured(Cur, sid, timestamp)
           IN /\ after.sessions[sid].domEventCount = sessions[sid].domEventCount + 1
              /\ Len(after.accepted[sid]["dom"]) = Len(accepted[sid]["dom"]) + 1
              /\ after.accepted[sid]["dom"][Len(after.accepted[sid]["dom"])].timestamp
                   = timestamp

(***************************************************************************)
(* C40.  Once the offscreen document has sent MEDIA_STOPPED and every       *)
(* storeChunk of the session has returned, the finalChunkCount the          *)
(* notification carried counts the chunks stored for the session: they are  *)
(* exactly the indices 0..finalChunkCount-1, the chunk of the recorder's    *)
(* final dataavailable among them.                                          *)
(***************************************************************************)
FinalChunkCountCountsStoredChunks ==
  (offscreen.mediaStopped # <<>> /\ offscreen.storing = {})
    => offscreen.chunks = 0..(offscreen.mediaStopped[1] - 1)
====
